---------------------------- MODULE Spec2Model ----------------------------
(***************************************************************************)
(* A model of the Atlas backend glue code:                                 *)
(*   - CladoTool._make_request (agent/tools/clado_tool.py): the retry loop *)
(*   - ComposioMCPService (services/composio_integration.py): validation,  *)
(*     rate limiting, get-or-create of MCP connections, tool selection,    *)
(*     listing and deletion                                                *)
(*   - the /composio-mcp routes (api/composio_mcp.py)                      *)
(*   - the /admin routes (services/admin_api.py, utils/admin_utils.py)     *)
(* Strings the code inspects character by character are sequences of       *)
(* one-character strings.                                                  *)
(***************************************************************************)
EXTENDS Integers, Sequences, FiniteSets, TLC

VARIABLES
    \* ---- CladoTool._make_request
    cPc,          \* "idle" | "loop" | "done"
    cMethod,      \* the method argument of the call in progress
    cAttempt,     \* the loop variable `attempt`
    cHttp,        \* the outcomes of the HTTP attempts made so far, in order
    cSleeps,      \* the asyncio.sleep durations so far, in order
    cResult,      \* how the call ended: [kind |-> "none" | "json" | "raise" | "fallthrough", msg]
    \* ---- Supabase tables used by ComposioMCPService
    agents,       \* account id -> the default agent's row, or NoAgent
    tokens,       \* the rows of mcp_oauth_tokens
    \* ---- ComposioMCPService
    dUser,        \* the user whose calls the behaviour follows
    pending,      \* get_or_create calls suspended at the Composio request
    last,         \* the service or route call that completed last, with its result
    ops,          \* number of calls begun
    stored,       \* history: (user, app) -> the URLs that get_or_create calls stored and returned
    storedOk,     \* history: (user, app) -> the URLs stored by calls whose lookup succeeded
    raceUrls,     \* history: (user, app) -> the URLs returned by successful overlapping calls
    created,      \* history: the (user, app) pairs for which create-connection returned success
    deleted,      \* history: (user, app) -> the URLs stored before a delete that answered True
    faulted,      \* history: whether a Supabase request has failed so far
    \* ---- the rate limiter
    now,          \* the clock, in ticks of 60 / TicksPerMinute seconds
    rateCache,    \* _rate_limit_cache: cache key -> list of timestamps
    granted,      \* history: (user, app) -> times of the calls answered True less than a minute ago
    lastRate,     \* the last check_rate_limit / create_user_mcp_connection_simple call and its answer
    rFocus,       \* the (user, app) pair the calls concentrate on
    rOther,       \* number of rate-limited calls made for other pairs
    \* ---- /admin routes
    aPc,          \* "idle" | "served"
    aReq,         \* the admin request in progress or last served
    aEffects,     \* what the body of the endpoint did for that request
    \* ---- scripts/add_user_to_pro_plan.py: Stripe and the billing tables
    bRuns,        \* number of add_user_to_pro_plan runs so far
    stripeCustomers,  \* the ids of the Stripe customers created for the user
    stripeSubs,   \* the active Pro subscriptions in Stripe: [id, customer]
    dbCustomers,  \* the ids in the billing_customers rows of the user's account
    dbSubs,       \* the ids in the billing_subscriptions rows of the user's account
    bLast,        \* the last run: what it returned and what it created
    \* ---- one evaluation of a function or tool method
    ePc,          \* "ready" | "done"
    eIn,          \* the arguments (and what the environment answers)
    eOut          \* the result

cladoVars == <<cPc, cMethod, cAttempt, cHttp, cSleeps, cResult>>
dbVars    == <<agents, tokens, dUser, pending, last, ops, stored, storedOk, raceUrls, created, deleted, faulted>>
rateVars  == <<now, rateCache, granted, lastRate, rFocus, rOther>>
adminVars == <<aPc, aReq, aEffects>>
billVars  == <<bRuns, stripeCustomers, stripeSubs, dbCustomers, dbSubs, bLast>>
evalVars  == <<ePc, eIn, eOut>>
extVars   == <<billVars, evalVars>>
coreVars  == <<cladoVars, dbVars, rateVars, adminVars>>
vars      == <<coreVars, extVars>>

-----------------------------------------------------------------------------
(* Python strings                                                          *)

LowerAlpha == <<"a","b","c","d","e","f","g","h","i","j","k","l","m",
                "n","o","p","q","r","s","t","u","v","w","x","y","z">>
UpperAlpha == <<"A","B","C","D","E","F","G","H","I","J","K","L","M",
                "N","O","P","Q","R","S","T","U","V","W","X","Y","Z">>
DigitChars == {"0","1","2","3","4","5","6","7","8","9"}

Range(f) == {f[i] : i \in DOMAIN f}
IsLower(c) == c \in Range(LowerAlpha)
IsUpper(c) == c \in Range(UpperAlpha)
IsLetter(c) == IsLower(c) \/ IsUpper(c)

\* str.lower() and str.upper() on one character
LowerChar(c) ==
    IF IsUpper(c) THEN LowerAlpha[CHOOSE i \in 1..26 : UpperAlpha[i] = c] ELSE c
UpperChar(c) ==
    IF IsLower(c) THEN UpperAlpha[CHOOSE i \in 1..26 : LowerAlpha[i] = c] ELSE c

\* str.lower()
StrLower(s) == [i \in 1..Len(s) |-> LowerChar(s[i])]
\* str.upper()
StrUpper(s) == [i \in 1..Len(s) |-> UpperChar(s[i])]
\* str.title(): a letter that follows a non-letter (or starts the string) is
\* upper-cased, every other letter is lower-cased
StrTitle(s) ==
    [i \in 1..Len(s) |->
        IF i = 1 \/ ~IsLetter(s[i-1]) THEN UpperChar(s[i]) ELSE LowerChar(s[i])]

RECURSIVE Repeat(_, _)
Repeat(c, n) == IF n = 0 THEN <<>> ELSE <<c>> \o Repeat(c, n - 1)

-----------------------------------------------------------------------------
(* CladoTool._make_request                                                 *)

max_retries == 3

\* What one HTTP attempt can produce: a status code with a JSON body, a 2xx
\* whose body is not JSON, a timeout, or another transport error.
HttpStatuses == {200, 201, 400, 401, 402, 404, 422, 429, 500, 502, 503}
HttpOutcomes ==
    [kind : {"status"}, code : HttpStatuses]
      \cup {[kind |-> "timeout", code |-> 0],
            [kind |-> "badjson", code |-> 200],
            [kind |-> "neterror", code |-> 0]}

CladoMethods == {<<"G","E","T">>, <<"p","o","s","t">>, <<"P","U","T">>}

NoResult == [kind |-> "none", msg |-> "", body |-> 0]
Raise(m) == [kind |-> "raise", msg |-> m, body |-> 0]

\* 2 ** attempt
RECURSIVE Pow2(_)
Pow2(n) == IF n = 0 THEN 1 ELSE 2 * Pow2(n - 1)

\* response.raise_for_status(): an error for every status that is not 2xx
IsSuccessStatus(code) == code >= 200 /\ code < 300

\* `if attempt == self.max_retries - 1` in the three handlers
LastAttemptOffByOne(attempt) == attempt = max_retries
IsLastAttempt(attempt) == attempt = max_retries - 1

\* The exception the try body raises for an outcome, or "none" when it returns.
\* An unsupported method raises ValueError before any request is sent.
TryBody(method, o) ==
    IF StrUpper(method) \notin {<<"G","E","T">>, <<"P","O","S","T">>}
    THEN "Exception"
    ELSE CASE o.kind = "timeout"  -> "TimeoutException"
           [] o.kind = "neterror" -> "Exception"
           [] o.kind = "badjson"  -> "Exception"
           [] o.kind = "status" /\ IsSuccessStatus(o.code) -> "none"
           [] OTHER -> "HTTPStatusError"

\* except clauses that back off and retry on every error status
HandleRetryEveryStatus(exc, o, attempt) ==
    IF IsLastAttempt(attempt)
    THEN [act |-> "raise",
          msg |-> CASE exc = "TimeoutException" -> "Request timed out"
                    [] exc = "HTTPStatusError" -> "Server error"
                    [] OTHER -> "Request failed"]
    ELSE [act |-> "sleep", msg |-> ""]

\* The except clauses of one iteration: what they do with the exception.
\* [act |-> "raise", msg] ends the call, [act |-> "sleep"] backs off and loops.
Handle(exc, o, attempt) ==
    CASE exc = "TimeoutException" ->
            IF IsLastAttempt(attempt)
            THEN [act |-> "raise", msg |-> "Request timed out"]
            ELSE [act |-> "sleep", msg |-> ""]
      [] exc = "HTTPStatusError" ->
            IF o.code = 401 THEN [act |-> "raise", msg |-> "Invalid or expired Clado API key"]
            ELSE IF o.code = 402 THEN [act |-> "raise", msg |-> "Insufficient Clado API credits"]
            ELSE IF o.code = 422 THEN [act |-> "raise", msg |-> "Validation error"]
            ELSE IF o.code >= 500
                 THEN IF IsLastAttempt(attempt)
                      THEN [act |-> "raise", msg |-> "Server error"]
                      ELSE [act |-> "sleep", msg |-> ""]
            ELSE [act |-> "raise", msg |-> "HTTP error"]
      [] OTHER ->
            IF IsLastAttempt(attempt)
            THEN [act |-> "raise", msg |-> "Request failed"]
            ELSE [act |-> "sleep", msg |-> ""]

\* A tool method calls _make_request(method, ...).
MakeRequestCall(method) ==
    /\ cPc = "idle"
    /\ cPc' = "loop"
    /\ cMethod' = method
    /\ cAttempt' = 0
    /\ cHttp' = <<>>
    /\ cSleeps' = <<>>
    /\ cResult' = NoResult
    /\ UNCHANGED <<dbVars, rateVars, adminVars, extVars>>

\* One iteration of `for attempt in range(self.max_retries)`, with the return
\* of None that follows the loop when the last iteration neither returns nor raises.
MakeRequestAttempt(o) ==
    /\ cPc = "loop"
    /\ cAttempt < max_retries
    /\ LET exc  == TryBody(cMethod, o)
           sent == StrUpper(cMethod) \in {<<"G","E","T">>, <<"P","O","S","T">>}
           h    == Handle(exc, o, cAttempt)
       IN  /\ cHttp' = IF sent THEN Append(cHttp, o) ELSE cHttp
           /\ IF exc = "none"
              THEN /\ cResult' = [kind |-> "json", msg |-> "", body |-> o.code]
                   /\ cPc' = "done"
                   /\ UNCHANGED <<cSleeps, cAttempt>>
              ELSE IF h.act = "raise"
              THEN /\ cResult' = Raise(h.msg)
                   /\ cPc' = "done"
                   /\ UNCHANGED <<cSleeps, cAttempt>>
              ELSE /\ cSleeps' = Append(cSleeps, Pow2(cAttempt))
                   /\ cAttempt' = cAttempt + 1
                   /\ IF cAttempt + 1 < max_retries
                      THEN UNCHANGED <<cPc, cResult>>
                      ELSE /\ cPc' = "done"
                           /\ cResult' = [kind |-> "fallthrough", msg |-> "", body |-> 0]
    /\ UNCHANGED <<cMethod, dbVars, rateVars, adminVars, extVars>>

-----------------------------------------------------------------------------
(* ComposioMCPService: configuration and validation                        *)

COMPOSIO_SUPPORTED_APPS == {
    [key |-> <<"g","m","a","i","l">>, rate_limit |-> 100],
    [key |-> <<"s","l","a","c","k">>, rate_limit |-> 100],
    [key |-> <<"d","i","s","c","o","r","d">>, rate_limit |-> 50],
    [key |-> <<"m","i","c","r","o","s","o","f","t","-","t","e","a","m","s">>, rate_limit |-> 100],
    [key |-> <<"z","o","o","m">>, rate_limit |-> 50],
    [key |-> <<"g","i","t","h","u","b">>, rate_limit |-> 100],
    [key |-> <<"g","i","t","l","a","b">>, rate_limit |-> 100],
    [key |-> <<"b","i","t","b","u","c","k","e","t">>, rate_limit |-> 100],
    [key |-> <<"n","o","t","i","o","n">>, rate_limit |-> 100],
    [key |-> <<"g","o","o","g","l","e","-","d","o","c","s">>, rate_limit |-> 100],
    [key |-> <<"g","o","o","g","l","e","-","s","h","e","e","t","s">>, rate_limit |-> 100],
    [key |-> <<"a","i","r","t","a","b","l","e">>, rate_limit |-> 100],
    [key |-> <<"g","o","o","g","l","e","-","d","r","i","v","e">>, rate_limit |-> 100],
    [key |-> <<"d","r","o","p","b","o","x">>, rate_limit |-> 100],
    [key |-> <<"o","n","e","d","r","i","v","e">>, rate_limit |-> 100],
    [key |-> <<"l","i","n","e","a","r">>, rate_limit |-> 100],
    [key |-> <<"j","i","r","a">>, rate_limit |-> 100],
    [key |-> <<"t","r","e","l","l","o">>, rate_limit |-> 100],
    [key |-> <<"a","s","a","n","a">>, rate_limit |-> 100],
    [key |-> <<"m","o","n","d","a","y">>, rate_limit |-> 100],
    [key |-> <<"c","l","i","c","k","u","p">>, rate_limit |-> 100],
    [key |-> <<"h","u","b","s","p","o","t">>, rate_limit |-> 100],
    [key |-> <<"s","a","l","e","s","f","o","r","c","e">>, rate_limit |-> 100],
    [key |-> <<"p","i","p","e","d","r","i","v","e">>, rate_limit |-> 100],
    [key |-> <<"g","o","o","g","l","e","-","c","a","l","e","n","d","a","r">>, rate_limit |-> 100],
    [key |-> <<"o","u","t","l","o","o","k","-","c","a","l","e","n","d","a","r">>, rate_limit |-> 100],
    [key |-> <<"c","a","l","e","n","d","l","y">>, rate_limit |-> 100]}

SupportedKeys == {a.key : a \in COMPOSIO_SUPPORTED_APPS}

\* RATE_LIMIT_CONFIG["default_requests_per_minute"]
default_requests_per_minute == 60

MaxAppKeyLen == 50
MaxUserIdLen == 100

\* A Python value handed to a validator: a str, an int or None.
PyStr(s) == [kind |-> "str", chars |-> s, num |-> 0]
PyInt(n) == [kind |-> "int", chars |-> <<>>, num |-> n]
PyNone   == [kind |-> "none", chars |-> <<>>, num |-> 0]

\* Python truthiness: `not v` is the negation of this
Truthy(v) ==
    CASE v.kind = "str" -> Len(v.chars) > 0
      [] v.kind = "int" -> v.num # 0
      [] OTHER -> FALSE

\* re.compile(r"^[<class>]+$").match(s): one or more characters of the class,
\* up to the end of the string or up to a final newline ($ matches before it)
MatchesClassPlus(s, class) ==
    LET body == IF Len(s) > 0 /\ s[Len(s)] = "\n" THEN SubSeq(s, 1, Len(s) - 1) ELSE s
    IN  Len(body) >= 1 /\ \A i \in 1..Len(body) : body[i] \in class

\* VALIDATION_PATTERNS["app_key"] and ["user_id"]
AppKeyClass == Range(LowerAlpha) \cup DigitChars \cup {"-"}
UserIdClass == Range(LowerAlpha) \cup Range(UpperAlpha) \cup DigitChars \cup {"-", "_"}

Valid == [ok |-> TRUE, err |-> "none"]
Invalid(e) == [ok |-> FALSE, err |-> e]

\* validate_app_key
validate_app_key(v) ==
    IF ~Truthy(v) THEN Invalid("App key cannot be empty")
    ELSE IF v.kind # "str" THEN Invalid("App key must be a string")
    ELSE IF Len(v.chars) > MaxAppKeyLen THEN Invalid("App key too long")
    ELSE IF ~MatchesClassPlus(v.chars, AppKeyClass)
         THEN Invalid("App key contains invalid characters")
    ELSE IF v.chars \notin SupportedKeys THEN Invalid("Unsupported app")
    ELSE Valid

\* validate_user_id
validate_user_id(v) ==
    IF ~Truthy(v) THEN Invalid("User ID cannot be empty")
    ELSE IF v.kind # "str" THEN Invalid("User ID must be a string")
    ELSE IF Len(v.chars) > MaxUserIdLen THEN Invalid("User ID too long")
    ELSE IF ~MatchesClassPlus(v.chars, UserIdClass)
         THEN Invalid("User ID contains invalid characters")
    ELSE Valid

-----------------------------------------------------------------------------
(* ComposioMCPService.check_rate_limit                                     *)

\* The one-minute window of check_rate_limit, in clock ticks: a tick is 30 s.
TicksPerMinute == 2
MaxTime == 2

\* cache_key = f"{user_id}:{app_key}"
CacheKey(u, a) == u \o <<":">> \o a

\* COMPOSIO_SUPPORTED_APPS.get(app_key, {}).get("rate_limit", default)
RateLimitOf(a) ==
    IF a \in SupportedKeys
    THEN (CHOOSE c \in COMPOSIO_SUPPORTED_APPS : c.key = a).rate_limit
    ELSE default_requests_per_minute

\* The list comprehension that drops the entries older than a minute:
\* `timestamp > now - timedelta(minutes=1)`
PruneOld(ts, t) == SelectSeq(ts, LAMBDA x : x > t - TicksPerMinute)

\* `len(cache) >= rate_limit`
LimitReachedLate(n, limit) == n > limit
LimitReached(n, limit) == n >= limit

\* check_rate_limit(user_id, app_key) at time t on cache c:
\* the answer and the cache it leaves
CheckRateLimit(c, t, u, a) ==
    LET key    == CacheKey(u, a)
        old    == IF key \in DOMAIN c THEN c[key] ELSE <<>>
        pruned == PruneOld(old, t)
        refuse == LimitReached(Len(pruned), RateLimitOf(a))
        kept   == IF refuse THEN pruned ELSE Append(pruned, t)
    IN  [ok    |-> ~refuse,
         err   |-> IF refuse THEN "Rate limit exceeded" ELSE "none",
         cache |-> [k \in DOMAIN c \cup {key} |-> IF k = key THEN kept ELSE c[k]]]


\* ---- inputs of the rate limiter

UserS == <<"u","s","e","r","_","1">>
UserS2 == <<"u","s","e","r","-","2">>
AppDiscord == <<"d","i","s","c","o","r","d">>
AppTeams == <<"m","i","c","r","o","s","o","f","t","-","t","e","a","m","s">>
AppFoo == <<"f","o","o">>

\* the pairs check_rate_limit is called for; the calls concentrate on one of
\* FocusPairs and at most MaxOtherCalls go to the others
RatePairs == {<<UserS, AppDiscord>>, <<UserS, AppFoo>>, <<UserS2, AppDiscord>>}
FocusPairs == {<<UserS, AppDiscord>>, <<UserS, AppFoo>>}
MaxOtherCalls == 1

NoRate == [op |-> "none", user |-> <<>>, app |-> <<>>, ok |-> TRUE,
           error |-> <<"", "none">>, at |-> 0, steps |-> <<>>,
           composio |-> FALSE, cacheSame |-> TRUE]

EmptyDict == [k \in {} |-> <<>>]

\* the times of `ts` that lie less than a minute before t
WithinMinute(ts, t) == SelectSeq(ts, LAMBDA x : t - x < TicksPerMinute)

GrantedOf(g, p) == IF p \in DOMAIN g THEN g[p] ELSE <<>>

RecordGrant(g, p, t, ok) ==
    IF ok THEN [q \in DOMAIN g \cup {p} |-> IF q = p THEN Append(GrantedOf(g, p), t) ELSE g[q]]
    ELSE g

\* The clock advances by d ticks.
Tick(d) ==
    /\ now + d <= MaxTime
    /\ now' = now + d
    /\ granted' = [p \in DOMAIN granted |-> WithinMinute(granted[p], now + d)]
    /\ UNCHANGED <<rateCache, lastRate, rFocus, rOther>>
    /\ UNCHANGED <<cladoVars, dbVars, adminVars, extVars>>

\* A caller invokes check_rate_limit(u, a).
CheckRateLimitCall(u, a) ==
    /\ <<u, a>> = rFocus \/ rOther < MaxOtherCalls
    /\ rOther' = IF <<u, a>> = rFocus THEN rOther ELSE rOther + 1
    /\ LET r == CheckRateLimit(rateCache, now, u, a)
       IN  /\ rateCache' = r.cache
           /\ granted' = RecordGrant(granted, <<u, a>>, now, r.ok)
           /\ lastRate' = [op |-> "check", user |-> u, app |-> a, ok |-> r.ok,
                           error |-> <<"", r.err>>, at |-> now,
                           steps |-> <<"check_rate_limit">>,
                           composio |-> FALSE, cacheSame |-> r.cache = rateCache]
    /\ UNCHANGED <<now, rFocus>>
    /\ UNCHANGED <<cladoVars, dbVars, adminVars, extVars>>

InitRate ==
    /\ now = 0
    /\ rateCache = EmptyDict
    /\ granted = EmptyDict
    /\ lastRate = NoRate
    /\ rFocus \in FocusPairs
    /\ rOther = 0


-----------------------------------------------------------------------------
(* Supabase: basejump.accounts, agents, mcp_oauth_tokens                   *)

Uuid(c) == Repeat(c, 8) \o <<"-">> \o Repeat(c, 4) \o <<"-">> \o Repeat(c, 4)
             \o <<"-">> \o Repeat(c, 4) \o <<"-">> \o Repeat(c, 12)

UserA == Uuid("a")                       \* a user with a personal account
UserN == Uuid("0")                       \* a user without a personal account
UserT == <<"t","e","s","t","-","1">>     \* a test user id that is no UUID

HexChars == DigitChars \cup {"a","b","c","d","e","f","A","B","C","D","E","F"}

\* uuid.UUID(user_id) succeeds: 32 hexadecimal digits once the hyphens are dropped
ParsesAsUUID(s) ==
    LET hex == SelectSeq(s, LAMBDA c : c # "-")
    IN  Len(hex) = 32 /\ \A i \in 1..32 : hex[i] \in HexChars

\* The UUID-formatted MD5 digest of a string, as an uninterpreted term.
Md5Uuid(s) == <<"md5(">> \o s \o <<")">>

\* _normalize_user_id
NormalizeUserId(u) == IF ParsesAsUUID(u) THEN u ELSE Md5Uuid(u)

\* basejump.accounts: the personal accounts, by primary_owner_user_id
PersonalAccounts == {[owner |-> UserA, id |-> "acc-a"],
                     [owner |-> Md5Uuid(UserT), id |-> "acc-t"]}
AccountIds == {r.id : r \in PersonalAccounts}
NoAccount == "none"
AccountOf(actual_user_id) ==
    IF \E r \in PersonalAccounts : r.owner = actual_user_id
    THEN (CHOOSE r \in PersonalAccounts : r.owner = actual_user_id).id
    ELSE NoAccount

NoUrl == [app |-> <<>>, session |-> 0, via |-> "none"]
Tools == {<<>>, <<"SEND", "FETCH">>}

\* a row of agents with is_default: custom_mcps is NULL or a list of entries
NoAgent    == [exists |-> FALSE, null |-> FALSE, mcps |-> <<>>]
EmptyAgent == [exists |-> TRUE,  null |-> FALSE, mcps |-> <<>>]
NullAgent  == [exists |-> TRUE,  null |-> TRUE,  mcps |-> <<>>]
CustomAgent ==
    [exists |-> TRUE, null |-> FALSE,
     mcps |-> << [name |-> <<"E","x","a">>, type |-> "sse",
                  url |-> [app |-> <<"e","x","a">>, session |-> 0, via |-> "custom"],
                  enabledTools |-> <<"SEARCH">>] >>]

\* `custom_mcps or []`
McpsOrEmpty(row) == IF row.null THEN <<>> ELSE row.mcps

\* the index of the first entry that satisfies P, or 0
FirstIndex(seq, P(_)) ==
    IF \E i \in 1..Len(seq) : P(seq[i])
    THEN CHOOSE i \in 1..Len(seq) : P(seq[i]) /\ \A j \in 1..(i-1) : ~P(seq[j])
    ELSE 0

\* `mcp.get("type") == "http" and mcp.get("name", "").lower() == app_key.lower()`
MatchesExactName(mcp, app) == mcp.type = "http" /\ mcp.name = app
MatchesApp(mcp, app) == mcp.type = "http" /\ StrLower(mcp.name) = StrLower(app)


-----------------------------------------------------------------------------
(* ComposioMCPService: connections                                         *)

MaxOps == 3

\* uuid.uuid4(): the session UUID of a call is one no other call has drawn
SessionOf(n) == n + 1

DbApps == {AppTeams, AppFoo}
DbUsers == {UserA, UserT, UserN}

\* what the two requests of _generate_composio_mcp_url can lead to
ComposioOutcomes == {"install_failed", "exception", "sse", "fallback"}

\* _generate_composio_mcp_url: None, the sseUrl of the status response, or
\* the fallback URL built from the session UUID
GenerateComposioMcpUrl(app, session, outcome) ==
    CASE outcome = "sse"      -> [app |-> app, session |-> session, via |-> "sse"]
      [] outcome = "fallback" -> [app |-> app, session |-> session, via |-> "fallback"]
      [] OTHER                -> NoUrl

\* Step 1 of get_or_create_user_mcp_connection: the lookup in the default
\* agent. `fault`: a Supabase request raises. Iterating a NULL custom_mcps
\* raises too; both are caught and the call goes on to create a connection.
LookupExisting(ag, user, app, fault) ==
    LET acct == AccountOf(NormalizeUserId(user))
    IN  IF fault THEN [found |-> FALSE, raised |-> TRUE, url |-> NoUrl]
        ELSE IF acct = NoAccount \/ ~ag[acct].exists
             THEN [found |-> FALSE, raised |-> FALSE, url |-> NoUrl]
        ELSE IF ag[acct].null THEN [found |-> FALSE, raised |-> TRUE, url |-> NoUrl]
        ELSE LET i == FirstIndex(ag[acct].mcps, LAMBDA m : MatchesApp(m, app))
             IN  IF i = 0 THEN [found |-> FALSE, raised |-> FALSE, url |-> NoUrl]
                 ELSE [found |-> TRUE, raised |-> FALSE, url |-> ag[acct].mcps[i].url]

StoreFaults == {"none", "accounts", "select", "insert", "update"}

\* new_mcp_config
NewMcpConfig(app, url) ==
    [name |-> StrTitle(app), type |-> "http", url |-> url, enabledTools |-> <<>>]

\* _store_mcp_connection: the answer and the agents table it leaves.
\* `fault` names the Supabase request that fails, if any.
StoreMcpConnection(ag, user, app, url, fault) ==
    LET acct == AccountOf(NormalizeUserId(user))
    IN  IF fault = "accounts" \/ acct = NoAccount \/ fault = "select"
        THEN [ok |-> FALSE, agents |-> ag]
        ELSE IF ~ag[acct].exists /\ fault = "insert"
        THEN [ok |-> FALSE, agents |-> ag]
        ELSE
          LET row      == IF ag[acct].exists THEN ag[acct] ELSE EmptyAgent
              current  == McpsOrEmpty(row)
              ag1      == [ag EXCEPT ![acct] = row]
              existing == FirstIndex(current, LAMBDA m : m.type = "http" /\ m.url = url)
              updated  == IF existing # 0
                          THEN [current EXCEPT ![existing] = NewMcpConfig(app, url)]
                          ELSE Append(current, NewMcpConfig(app, url))
          IN  IF fault = "update"
              THEN [ok |-> FALSE, agents |-> ag1]
              ELSE [ok |-> TRUE,
                    agents |-> [ag EXCEPT ![acct] =
                                   [exists |-> TRUE, null |-> FALSE, mcps |-> updated]]]

UpdateFaults == {"none", "accounts", "select", "update"}

\* update_mcp_enabled_tools
UpdateMcpEnabledTools(ag, user, app, selected_tools, fault) ==
    LET acct == AccountOf(NormalizeUserId(user))
    IN  IF fault \in {"accounts", "select"} \/ acct = NoAccount \/ ~ag[acct].exists
        THEN [ok |-> FALSE, agents |-> ag]
        ELSE
          LET current == McpsOrEmpty(ag[acct])
              i == FirstIndex(current, LAMBDA m : MatchesApp(m, app))
          IN  IF i = 0 \/ fault = "update"
              THEN [ok |-> FALSE, agents |-> ag]
              ELSE [ok |-> TRUE,
                    agents |-> [ag EXCEPT ![acct] =
                        [exists |-> TRUE, null |-> FALSE,
                         mcps |-> [current EXCEPT ![i].enabledTools = selected_tools]]]]

\* qualified_name = f"composio/{app_key}"
ComposioPrefix == <<"c","o","m","p","o","s","i","o","/">>
QualifiedName(app) == ComposioPrefix \o app

StartsWith(s, pre) == Len(s) >= Len(pre) /\ SubSeq(s, 1, Len(pre)) = pre

\* str.replace(pat, ""): every occurrence of pat removed, left to right
RECURSIVE RemoveAll(_, _)
RemoveAll(s, pat) ==
    IF Len(s) = 0 THEN s
    ELSE IF StartsWith(s, pat) THEN RemoveAll(SubSeq(s, Len(pat) + 1, Len(s)), pat)
    ELSE <<s[1]>> \o RemoveAll(SubSeq(s, 2, Len(s)), pat)

\* list_user_mcp_connections: the connections built from the rows of
\* mcp_oauth_tokens of the user whose qualified_name is LIKE 'composio/%'
ListUserMcpConnections(tk, user, fault) ==
    IF fault THEN {}
    ELSE {[user_id |-> r.user_id, app_key |-> RemoveAll(r.qualified_name, ComposioPrefix),
           mcp_url |-> r.access_token] :
            r \in {x \in tk : /\ x.user_id = NormalizeUserId(user)
                              /\ StartsWith(x.qualified_name, ComposioPrefix)}}

\* delete_user_mcp_connection: the answer and the rows it leaves
DeleteUserMcpConnection(tk, user, app, fault) ==
    LET hit == {x \in tk : /\ x.user_id = NormalizeUserId(user)
                           /\ x.qualified_name = QualifiedName(app)}
    IN  IF fault THEN [ok |-> FALSE, tokens |-> tk]
        ELSE [ok |-> hit # {}, tokens |-> tk \ hit]


\* ---- the calls

NoCall == [op |-> "none", user |-> <<>>, app |-> <<>>, status |-> 200,
           success |-> FALSE, mcp_url |-> NoUrl, existing |-> FALSE,
           composio |-> FALSE, wrote |-> FALSE, lookup |-> "none", fault |-> FALSE,
           storedBefore |-> {}, storedOkBefore |-> {}, tools |-> <<>>, rows |-> {},
           error |-> "none"]

SetOf(f, p) == IF p \in DOMAIN f THEN f[p] ELSE {}
AddTo(f, p, x) == [q \in DOMAIN f \cup {p} |-> IF q = p THEN SetOf(f, p) \cup {x} ELSE f[q]]
SeqOf(f, p) == IF p \in DOMAIN f THEN f[p] ELSE <<>>
AppendTo(f, p, x) == [q \in DOMAIN f \cup {p} |-> IF q = p THEN Append(SeqOf(f, p), x) ELSE f[q]]

\* get_or_create_user_mcp_connection (and create_user_mcp_connection, which
\* returns its result) up to the await of the Composio request: the lookup,
\* then either the return of the existing connection or the session UUID.
GetOrCreateBegin(u, a, fault) ==
    /\ ops < MaxOps
    /\ ops' = ops + 1
    /\ faulted' = (faulted \/ fault)
    /\ LET lk == LookupExisting(agents, u, a, fault)
       IN  IF lk.found
           THEN /\ last' = [NoCall EXCEPT !.op = "get_or_create", !.user = u, !.app = a,
                           !.success = TRUE, !.mcp_url = lk.url, !.existing = TRUE,
                           !.lookup = "ok",
                           !.storedBefore = SetOf(stored, <<u, a>>),
                           !.storedOkBefore = SetOf(storedOk, <<u, a>>)]
                /\ UNCHANGED pending
           ELSE /\ pending' =
                     {[q EXCEPT !.overlap = q.overlap \/ (q.user = u /\ q.app = a)] : q \in pending}
                     \cup {[id |-> ops + 1, user |-> u, app |-> a, session |-> SessionOf(ops),
                            lookup |-> IF lk.raised THEN "raise" ELSE "ok",
                            fault |-> fault,
                            storedBefore |-> SetOf(stored, <<u, a>>),
                            storedOkBefore |-> SetOf(storedOk, <<u, a>>),
                            overlap |-> \E q \in pending : q.user = u /\ q.app = a]}
                /\ UNCHANGED last
    /\ UNCHANGED <<agents, tokens, stored, storedOk, raceUrls, created, deleted>>
    /\ UNCHANGED <<dUser, cladoVars, rateVars, adminVars, extVars>>

\* The rest of get_or_create_user_mcp_connection once Composio has answered:
\* the URL, the store in the default agent and the result.
GetOrCreateFinish(c, outcome, fault) ==
    /\ c \in pending
    /\ pending' = pending \ {c}
    /\ LET url == GenerateComposioMcpUrl(c.app, c.session, outcome)
           st  == StoreMcpConnection(agents, c.user, c.app, url, fault)
           res == [NoCall EXCEPT !.op = "get_or_create", !.user = c.user, !.app = c.app,
                      !.composio = TRUE, !.lookup = c.lookup,
                      !.storedBefore = c.storedBefore,
                      !.storedOkBefore = c.storedOkBefore]
       IN  IF url = NoUrl
           THEN /\ fault = "none"
                /\ last' = [res EXCEPT !.error = "Failed to generate MCP URL from Composio",
                                       !.fault = c.fault]
                /\ UNCHANGED <<agents, stored, storedOk, raceUrls, faulted>>
           ELSE /\ agents' = st.agents
                /\ faulted' = (faulted \/ fault # "none")
                /\ last' = [res EXCEPT !.success = st.ok,
                               !.mcp_url = IF st.ok THEN url ELSE NoUrl,
                               !.wrote = (st.agents # agents),
                               !.fault = (c.fault \/ fault # "none"),
                               !.error = IF st.ok THEN "none"
                                         ELSE "Failed to store MCP connection in database"]
                /\ stored' = IF st.ok THEN AddTo(stored, <<c.user, c.app>>, url) ELSE stored
                /\ storedOk' = IF st.ok /\ c.lookup = "ok"
                               THEN AddTo(storedOk, <<c.user, c.app>>, url) ELSE storedOk
                /\ raceUrls' = IF st.ok /\ c.overlap
                               THEN AppendTo(raceUrls, <<c.user, c.app>>, url) ELSE raceUrls
    /\ UNCHANGED <<tokens, ops, created, deleted>>
    /\ UNCHANGED <<dUser, cladoVars, rateVars, adminVars, extVars>>

\* create_user_mcp_connection_no_storage, which the routes call and the
\* service class does not define: as its callers describe it, a connection
\* created without storing anything in Supabase.
create_user_mcp_connection_no_storage(app, session, outcome) ==
    LET url == GenerateComposioMcpUrl(app, session, outcome)
    IN  [success |-> url # NoUrl, mcp_url |-> url]

\* POST /composio-mcp/create-connection. `impl`: the service method is
\* "absent" (the attribute lookup raises and the route answers 500) or
\* behaves as "documented".
CreateConnectionRoute(u, a, impl, outcome) ==
    /\ ops < MaxOps
    /\ ops' = ops + 1
    /\ IF impl = "absent"
       THEN /\ outcome = "exception"
            /\ last' = [NoCall EXCEPT !.op = "create-connection", !.user = u, !.app = a,
                                      !.status = 500]
            /\ UNCHANGED created
       ELSE LET r == create_user_mcp_connection_no_storage(a, SessionOf(ops), outcome)
            IN  /\ last' = [NoCall EXCEPT !.op = "create-connection", !.user = u, !.app = a,
                               !.success = r.success, !.mcp_url = r.mcp_url,
                               !.composio = TRUE,
                               !.error = IF r.success THEN "none"
                                         ELSE "Failed to generate MCP URL from Composio"]
                /\ created' = IF r.success THEN created \cup {<<u, a>>} ELSE created
    /\ UNCHANGED <<agents, tokens, pending, stored, storedOk, raceUrls, deleted, faulted>>
    /\ UNCHANGED <<dUser, cladoVars, rateVars, adminVars, extVars>>

\* POST /composio-mcp/update-tools
UpdateToolsRoute(u, a, selected_tools, fault) ==
    /\ ops < MaxOps
    /\ ops' = ops + 1
    /\ faulted' = (faulted \/ fault # "none")
    /\ LET r == UpdateMcpEnabledTools(agents, u, a, selected_tools, fault)
       IN  /\ agents' = r.agents
           /\ last' = [NoCall EXCEPT !.op = "update-tools", !.user = u, !.app = a,
                          !.success = r.ok, !.wrote = (r.agents # agents),
                          !.tools = IF r.ok THEN selected_tools ELSE <<>>,
                          !.fault = (fault # "none"),
                          !.error = IF r.ok THEN "none"
                                    ELSE "Could not update default agent configuration"]
    /\ UNCHANGED <<tokens, pending, stored, storedOk, raceUrls, created, deleted>>
    /\ UNCHANGED <<dUser, cladoVars, rateVars, adminVars, extVars>>

\* GET /composio-mcp/user-connections
ListConnectionsRoute(u, fault) ==
    /\ ops < MaxOps
    /\ ops' = ops + 1
    /\ faulted' = (faulted \/ fault)
    /\ last' = [NoCall EXCEPT !.op = "user-connections", !.user = u, !.success = TRUE,
                   !.rows = ListUserMcpConnections(tokens, u, fault), !.fault = fault]
    /\ UNCHANGED <<agents, tokens, pending, stored, storedOk, raceUrls, created, deleted>>
    /\ UNCHANGED <<dUser, cladoVars, rateVars, adminVars, extVars>>

\* DELETE /composio-mcp/connection/{app_key}
DeleteConnectionRoute(u, a, fault) ==
    /\ ops < MaxOps
    /\ ops' = ops + 1
    /\ faulted' = (faulted \/ fault)
    /\ LET r == DeleteUserMcpConnection(tokens, u, a, fault)
       IN  /\ tokens' = r.tokens
           /\ last' = [NoCall EXCEPT !.op = "delete", !.user = u, !.app = a,
                          !.success = r.ok, !.wrote = (r.tokens # tokens), !.fault = fault]
           /\ deleted' = IF r.ok /\ SetOf(stored, <<u, a>>) # {}
                         THEN [q \in DOMAIN deleted \cup {<<u, a>>} |->
                                 IF q = <<u, a>> THEN SetOf(deleted, q) \cup SetOf(stored, q)
                                 ELSE deleted[q]]
                         ELSE deleted
    /\ UNCHANGED <<agents, pending, stored, storedOk, raceUrls, created>>
    /\ UNCHANGED <<dUser, cladoVars, rateVars, adminVars, extVars>>


-----------------------------------------------------------------------------
(* create_user_mcp_connection_simple                                       *)

SimpleSteps == <<"validate_user_id", "validate_app_key", "check_rate_limit",
                 "generate_session_uuid", "generate_composio_mcp_url">>

\* the user ids and app keys handed to create_user_mcp_connection_simple
SimpleUsers == {PyStr(UserS), PyStr(<<"a"," ","b">>)}
SimpleApps == {PyStr(AppDiscord), PyStr(AppFoo), PyStr(AppDiscord \o <<"\n">>)}
SimpleOutcomes == {"exception", "sse"}

\* create_user_mcp_connection_simple on cache c at time t: the result, the
\* steps it ran and the cache it leaves
SimpleUnvalidated(c, t, uv, av, session, outcome) ==
    LET rl  == CheckRateLimit(c, t, uv.chars, av.chars)
        url == GenerateComposioMcpUrl(av.chars, session, outcome)
    IN  [success |-> rl.ok /\ url # NoUrl,
         steps |-> IF rl.ok THEN SimpleSteps ELSE SubSeq(SimpleSteps, 1, 3),
         cache |-> rl.cache,
         error |-> IF ~rl.ok THEN <<"", rl.err>>
                   ELSE IF url = NoUrl
                        THEN <<"", "Failed to generate MCP URL from Composio">>
                   ELSE <<"", "none">>,
         mcp_url |-> IF rl.ok THEN url ELSE NoUrl, composio |-> rl.ok, granted |-> rl.ok]
CreateUserMcpConnectionSimple(c, t, uv, av, session, outcome) ==
    LET uok == validate_user_id(uv)
        aok == validate_app_key(av)
        rl  == CheckRateLimit(c, t, uv.chars, av.chars)
        url == GenerateComposioMcpUrl(av.chars, session, outcome)
        fail(n, e, cache) ==
            [success |-> FALSE, steps |-> SubSeq(SimpleSteps, 1, n), cache |-> cache,
             error |-> e, mcp_url |-> NoUrl, composio |-> n = 5, granted |-> n > 3]
    IN  IF ~uok.ok THEN fail(1, <<"Invalid user ID: ", uok.err>>, c)
        ELSE IF ~aok.ok THEN fail(2, <<"Invalid app key: ", aok.err>>, c)
        ELSE IF ~rl.ok THEN fail(3, <<"", rl.err>>, rl.cache)
        ELSE IF url = NoUrl
             THEN fail(5, <<"", "Failed to generate MCP URL from Composio">>, rl.cache)
        ELSE [success |-> TRUE, steps |-> SimpleSteps, cache |-> rl.cache,
              error |-> <<"", "none">>, mcp_url |-> url, composio |-> TRUE,
              granted |-> TRUE]

\* A caller invokes create_user_mcp_connection_simple(uv, av).
SimpleCall(uv, av, outcome) ==
    LET r == CreateUserMcpConnectionSimple(rateCache, now, uv, av, SessionOf(ops), outcome)
    IN  \* Composio answers only when the request is sent
        /\ r.composio \/ outcome = "exception"
        /\ rateCache' = r.cache
        /\ granted' = RecordGrant(granted, <<uv.chars, av.chars>>, now, r.granted)
        /\ lastRate' = [op |-> "simple", user |-> uv.chars, app |-> av.chars,
                        ok |-> r.success, error |-> r.error, at |-> now,
                        steps |-> r.steps, composio |-> r.composio,
                        cacheSame |-> r.cache = rateCache]
        /\ UNCHANGED <<now, rFocus, rOther>>
        /\ UNCHANGED <<cladoVars, dbVars, adminVars, extVars>>

-----------------------------------------------------------------------------
(* /admin routes                                                           *)

ADMIN_EMAILS == <<<<"r","a","t","h","i","h","a","r","i","v","a","n","s","h","@","g","m","a","i","l",".","c","o","m">>,
                  <<"a","n","d","r","e","w","@","t","h","n","k","r","a","i",".","c","o","m">>>>

\* auth.users, as get_user_by_id sees it: the callers of the admin routes
AdminCallers == {
    [id |-> "admin-1", found |-> TRUE, email |-> PyStr(ADMIN_EMAILS[1])],
    [id |-> "admin-2", found |-> TRUE,
     email |-> PyStr(<<"A","n","d","r","e","w","@","T","h","n","k","r","A","I",".","c","o","m">>)],
    [id |-> "user-1", found |-> TRUE, email |-> PyStr(<<"t","e","s","t","@","e","x","a","m","p","l","e",".","c","o","m">>)],
    [id |-> "user-2", found |-> TRUE,
     email |-> PyStr(<<"a","n","d","r","e","w","@","t","h","n","k","r","a","i",".","c","o","m",".","e","v","i","l",".","i","o">>)],
    [id |-> "user-3", found |-> TRUE, email |-> PyNone],
    [id |-> "user-4", found |-> TRUE, email |-> PyStr(<<>>)],
    [id |-> "ghost", found |-> FALSE, email |-> PyNone]}

\* is_admin_user: `lookup` is "ok" or "raise" (get_user_by_id fails)
IsAdminUserFailOpen(caller, lookup) ==
    IF lookup = "raise" THEN TRUE
    ELSE IF ~caller.found THEN FALSE
    ELSE IF ~Truthy(caller.email) THEN FALSE
    ELSE StrLower(caller.email.chars) \in {StrLower(e) : e \in Range(ADMIN_EMAILS)}
is_admin_user(caller, lookup) ==
    IF lookup = "raise" THEN FALSE
    ELSE IF ~caller.found THEN FALSE
    ELSE IF ~Truthy(caller.email) THEN FALSE
    ELSE StrLower(caller.email.chars) \in {StrLower(e) : e \in Range(ADMIN_EMAILS)}

\* verify_admin_access: TRUE when it returns, FALSE when it raises 403
verify_admin_access(caller, lookup) == is_admin_user(caller, lookup)

\* what the body of each endpoint does after verify_admin_access, in order
AdminEndpoints == {"stats", "search-user", "user-subscription", "add-user-to-pro"}
EndpointSteps(e) ==
    CASE e = "stats"             -> <<"list_users", "billing_customers_query">>
      [] e = "search-user"       -> <<"list_users">>
      [] e = "user-subscription" -> <<"get_user_email", "get_user_subscription",
                                       "calculate_monthly_usage">>
      [] OTHER                   -> <<"add_user_to_pro_plan_script">>

\* One request to an /admin endpoint. `failAt`: the step of the body that
\* raises (0: none); `bodyOk`: the add-user-to-pro script answers True, the
\* target of user-subscription has an email.
AdminRequest(e, caller, lookup, failAt, bodyOk) ==
    /\ aPc = "idle"
    /\ failAt <= Len(EndpointSteps(e))
    /\ aPc' = "served"
    /\ IF ~verify_admin_access(caller, lookup)
       THEN /\ failAt = 0 /\ bodyOk
            /\ aReq' = [endpoint |-> e, caller |-> caller, lookup |-> lookup, status |-> 403]
            /\ aEffects' = {}
       ELSE LET steps == EndpointSteps(e)
                ran   == IF failAt > 0 THEN failAt
                         ELSE IF e = "user-subscription" /\ ~bodyOk THEN 1
                         ELSE Len(steps)
            IN  /\ aEffects' = Range(SubSeq(steps, 1, ran))
                /\ aReq' = [endpoint |-> e, caller |-> caller, lookup |-> lookup,
                            status |-> IF failAt > 0 THEN 500
                                       ELSE IF e = "add-user-to-pro" /\ ~bodyOk THEN 400
                                       ELSE IF e = "user-subscription" /\ ~bodyOk THEN 404
                                       ELSE 200]
    /\ UNCHANGED <<cladoVars, dbVars, rateVars, extVars>>

\* The next request arrives.
AdminNext ==
    /\ aPc = "served"
    /\ aPc' = "idle"
    /\ UNCHANGED <<aReq, aEffects>>
    /\ UNCHANGED <<cladoVars, dbVars, rateVars, extVars>>

-----------------------------------------------------------------------------
(* Specifications                                                          *)

IdleClado ==
    /\ cPc = "idle" /\ cMethod = <<>> /\ cAttempt = 0
    /\ cHttp = <<>> /\ cSleeps = <<>> /\ cResult = NoResult

IdleRate ==
    /\ now = 0 /\ rateCache = EmptyDict /\ granted = EmptyDict
    /\ lastRate = NoRate /\ rFocus = <<UserS, AppDiscord>> /\ rOther = 0

\* the rows of mcp_oauth_tokens written by the earlier OAuth flow
LegacyTokens == {
    [user_id |-> UserA, qualified_name |-> QualifiedName(AppTeams),
     access_token |-> [app |-> AppTeams, session |-> 0, via |-> "legacy"]],
    [user_id |-> Uuid("b"), qualified_name |-> QualifiedName(AppTeams),
     access_token |-> [app |-> AppTeams, session |-> 0, via |-> "legacy-b"]],
    [user_id |-> UserA, qualified_name |-> <<"e","x","a">>,
     access_token |-> [app |-> <<"e","x","a">>, session |-> 0, via |-> "oauth"]]}

InitialAgents == {
    [acct \in AccountIds |-> NoAgent],
    [acct \in AccountIds |-> IF acct = "acc-a" THEN NullAgent ELSE CustomAgent]}

IdleDb ==
    /\ agents = [acct \in AccountIds |-> NoAgent]
    /\ tokens = {} /\ dUser = UserA
    /\ pending = {} /\ last = NoCall /\ ops = 0
    /\ stored = EmptyDict /\ storedOk = EmptyDict /\ raceUrls = EmptyDict
    /\ created = {} /\ deleted = EmptyDict /\ faulted = FALSE

NoRun == [ret |-> FALSE, createdCustomer |-> FALSE, createdSub |-> FALSE,
          foundActive |-> FALSE, fail |-> "none"]
IdleBilling ==
    /\ bRuns = 0 /\ stripeCustomers = {} /\ stripeSubs = {}
    /\ dbCustomers = {} /\ dbSubs = {} /\ bLast = NoRun

IdleEval == ePc = "done" /\ eIn = <<>> /\ eOut = <<>>

IdleAdmin ==
    /\ aPc = "idle"
    /\ aReq = [endpoint |-> "none", caller |-> [id |-> "none", found |-> FALSE, email |-> PyNone],
               lookup |-> "ok", status |-> 0]
    /\ aEffects = {}

\* ---- CladoTool._make_request
InitClado == IdleClado /\ IdleDb /\ IdleRate /\ IdleAdmin /\ IdleBilling /\ IdleEval
NextClado ==
    \/ \E m \in CladoMethods : MakeRequestCall(m)
    \/ \E o \in HttpOutcomes : MakeRequestAttempt(o)
SpecClado == InitClado /\ [][NextClado]_vars

\* ---- the connection calls of ComposioMCPService and the routes, one at a time
Init ==
    /\ IdleClado /\ IdleRate /\ IdleAdmin /\ IdleBilling /\ IdleEval
    /\ agents \in InitialAgents
    /\ tokens = LegacyTokens
    /\ dUser \in DbUsers
    /\ pending = {} /\ last = NoCall /\ ops = 0
    /\ stored = EmptyDict /\ storedOk = EmptyDict /\ raceUrls = EmptyDict
    /\ created = {} /\ deleted = EmptyDict /\ faulted = FALSE
Next ==
    \/ \E a \in DbApps, f \in BOOLEAN : pending = {} /\ GetOrCreateBegin(dUser, a, f)
    \/ \E c \in pending, o \in ComposioOutcomes, f \in StoreFaults :
          GetOrCreateFinish(c, o, f)
    \/ \E a \in DbApps, i \in {"absent", "documented"}, o \in ComposioOutcomes :
          pending = {} /\ CreateConnectionRoute(dUser, a, i, o)
    \/ \E a \in DbApps, t \in Tools, f \in UpdateFaults :
          pending = {} /\ UpdateToolsRoute(dUser, a, t, f)
    \/ \E f \in BOOLEAN : pending = {} /\ ListConnectionsRoute(dUser, f)
    \/ \E a \in DbApps, f \in BOOLEAN : pending = {} /\ DeleteConnectionRoute(dUser, a, f)
Spec == Init /\ [][Next]_vars

\* ---- get_or_create_user_mcp_connection calls that overlap at the await
MaxConcurrent == 2
NextRace ==
    \/ \E a \in DbApps, f \in BOOLEAN :
          Cardinality(pending) < MaxConcurrent /\ GetOrCreateBegin(dUser, a, f)
    \/ \E c \in pending, o \in ComposioOutcomes, f \in StoreFaults :
          GetOrCreateFinish(c, o, f)
SpecRace == Init /\ [][NextRace]_vars

\* ---- check_rate_limit under a clock
InitRateSpec == IdleClado /\ IdleDb /\ IdleAdmin /\ InitRate /\ IdleBilling /\ IdleEval
NextRate ==
    \/ \E d \in 1..TicksPerMinute : Tick(d)
    \/ \E p \in RatePairs : CheckRateLimitCall(p[1], p[2])
SpecRate == InitRateSpec /\ [][NextRate]_vars

\* ---- create_user_mcp_connection_simple under a clock
NextSimple ==
    \/ \E d \in 1..TicksPerMinute : Tick(d)
    \/ \E uv \in SimpleUsers, av \in SimpleApps, o \in SimpleOutcomes :
          SimpleCall(uv, av, o)
InitSimple == IdleClado /\ IdleDb /\ IdleAdmin /\ IdleRate /\ IdleBilling /\ IdleEval
SpecSimple == InitSimple /\ [][NextSimple]_vars

\* ---- the /admin routes
NextAdmin ==
    \/ \E e \in AdminEndpoints, c \in AdminCallers, l \in {"ok", "raise"},
          k \in 0..3, ok \in BOOLEAN : AdminRequest(e, c, l, k, ok)
    \/ AdminNext
InitAdmin == IdleClado /\ IdleDb /\ IdleRate /\ IdleAdmin /\ IdleBilling /\ IdleEval
SpecAdmin == InitAdmin /\ [][NextAdmin]_vars

-----------------------------------------------------------------------------
(* scripts/add_user_to_pro_plan.py                                         *)

MaxRuns == 3

\* The calls of one run that can fail: the user lookup, the account lookup,
\* the billing_customers query, stripe.Customer.create, the billing_customers
\* insert, stripe.Subscription.list, the coupon, stripe.Subscription.create
\* and the billing_subscriptions insert.
RunFailures == {"none", "find_user", "account", "existing_customer", "customer_create",
                "customer_insert", "sub_list", "coupon", "sub_create", "sub_insert"}

\* the id Stripe gives to the next object
NextId(ids) == Cardinality(ids) + 1

\* add_user_to_pro_plan(client, email) for the one user of the model. `fail`
\* is the call of this run that fails, `pick` the billing_customers row the
\* query returns first (0: none).
AddUserToProPlan(fail, pick) ==
    /\ bRuns < MaxRuns
    /\ bRuns' = bRuns + 1
    /\ pick \in (IF fail = "existing_customer" \/ dbCustomers = {} THEN {0} ELSE dbCustomers)
    /\ LET out(ret, cust, sub, found) ==
               [ret |-> ret, createdCustomer |-> cust, createdSub |-> sub,
                foundActive |-> found, fail |-> fail]
           newCust == NextId(stripeCustomers)
           newSub  == NextId(stripeSubs)
           \* from the coupon on, for customer c
           Subscribe(c, madeCust) ==
               IF fail = "coupon" \/ fail = "sub_create"
               THEN /\ bLast' = out(FALSE, madeCust, FALSE, FALSE)
                    /\ UNCHANGED <<stripeSubs, dbSubs>>
               ELSE /\ stripeSubs' = stripeSubs \cup {[id |-> newSub, customer |-> c]}
                    /\ IF fail = "sub_insert"
                       THEN /\ bLast' = out(FALSE, madeCust, TRUE, FALSE)
                            /\ UNCHANGED dbSubs
                       ELSE /\ bLast' = out(TRUE, madeCust, TRUE, FALSE)
                            /\ dbSubs' = dbSubs \cup {newSub}
       IN  IF fail \in {"find_user", "account"}
           THEN /\ bLast' = out(FALSE, FALSE, FALSE, FALSE)
                /\ UNCHANGED <<stripeCustomers, stripeSubs, dbCustomers, dbSubs>>
           ELSE IF pick # 0
           THEN IF fail # "sub_list" /\ \E x \in stripeSubs : x.customer = pick
                THEN /\ bLast' = out(TRUE, FALSE, FALSE, TRUE)
                     /\ UNCHANGED <<stripeCustomers, stripeSubs, dbCustomers, dbSubs>>
                ELSE /\ Subscribe(pick, FALSE)
                     /\ UNCHANGED <<stripeCustomers, dbCustomers>>
           ELSE IF fail = "customer_create"
           THEN /\ bLast' = out(FALSE, FALSE, FALSE, FALSE)
                /\ UNCHANGED <<stripeCustomers, stripeSubs, dbCustomers, dbSubs>>
           ELSE /\ stripeCustomers' = stripeCustomers \cup {newCust}
                /\ IF fail = "customer_insert"
                   THEN /\ bLast' = out(FALSE, TRUE, FALSE, FALSE)
                        /\ UNCHANGED <<stripeSubs, dbCustomers, dbSubs>>
                   ELSE /\ dbCustomers' = dbCustomers \cup {newCust}
                        /\ Subscribe(newCust, TRUE)
    /\ UNCHANGED <<coreVars, evalVars>>

InitBilling == IdleClado /\ IdleDb /\ IdleRate /\ IdleAdmin /\ IdleBilling /\ IdleEval
NextBilling ==
    \E f \in RunFailures, k \in 0..MaxRuns : AddUserToProPlan(f, k)
SpecBilling == InitBilling /\ [][NextBilling]_vars

-----------------------------------------------------------------------------
(* utils/tool_mention_processor.py                                         *)

\* `sub in s`
Contains(s, sub) ==
    \E i \in 1..(Len(s) - Len(sub) + 1) : SubSeq(s, i, i + Len(sub) - 1) = sub

\* ToolMentionProcessor._determine_tool_type
determine_tool_type(tool_id) ==
    IF StartsWith(tool_id, <<"c","o","n","f","i","g","u","r","e","d","_","m","c","p","_">>) \/ StartsWith(tool_id, <<"d","e","f","a","u","l","t","_","c","o","n","f","i","g","u","r","e","d","_","m","c","p","_">>)
    THEN "configured_mcp"
    ELSE IF StartsWith(tool_id, <<"c","u","s","t","o","m","_","m","c","p","_">>) \/ StartsWith(tool_id, <<"d","e","f","a","u","l","t","_","c","u","s","t","o","m","_","m","c","p","_">>)
    THEN "custom_mcp"
    ELSE IF Contains(tool_id, <<"c","o","m","p","o","s","i","o">>) \/ StartsWith(tool_id, <<"a","v","a","i","l","a","b","l","e","_","c","o","m","p","o","s","i","o","_">>)
    THEN "composio_mcp"
    ELSE "unknown"

\* the tool ids _determine_tool_type is applied to: a prefix followed by a body
IdPrefixes == {<<"c","o","n","f","i","g","u","r","e","d","_","m","c","p","_">>, <<"d","e","f","a","u","l","t","_","c","o","n","f","i","g","u","r","e","d","_","m","c","p","_">>, <<"c","u","s","t","o","m","_","m","c","p","_">>,
               <<"d","e","f","a","u","l","t","_","c","u","s","t","o","m","_","m","c","p","_">>, <<"c","o","m","p","o","s","i","o","_">>, <<"a","v","a","i","l","a","b","l","e","_","c","o","m","p","o","s","i","o","_">>,
               <<"d","e","f","a","u","l","t","_">>, <<"a","v","a","i","l","a","b","l","e","_">>, <<>>}
IdBodies == {<<"g","m","a","i","l">>, <<"G","m","a","i","l","_","s","e","n","d">>, <<"s","l","a","c","k">>, <<"m","y","_","t","o","o","l">>, <<"x","_","c","o","m","p","o","s","i","o">>, <<"c","o","m","p","o","s","i","o">>,
             <<"m","c","p">>, <<>>}
ToolIds == {p \o b : p \in IdPrefixes, b \in IdBodies} \ {<<>>}

InitToolType ==
    /\ IdleClado /\ IdleDb /\ IdleRate /\ IdleAdmin /\ IdleBilling
    /\ ePc = "id" /\ eIn \in ToolIds /\ eOut = <<>>

DetermineToolTypeCall ==
    /\ ePc = "id"
    /\ ePc' = "typed"
    /\ eOut' = determine_tool_type(eIn)
    /\ UNCHANGED <<eIn, coreVars, billVars>>

SpecToolType == InitToolType /\ [][DetermineToolTypeCall]_vars

\* s.split("_")[0]
FirstPart(s) ==
    IF \E i \in 1..Len(s) : s[i] = "_"
    THEN SubSeq(s, 1, (CHOOSE i \in 1..Len(s) : s[i] = "_" /\ \A j \in 1..(i-1) : s[j] # "_") - 1)
    ELSE s

-----------------------------------------------------------------------------
(* services/tool_information_fetcher.py                                    *)

MaxMentions == 2

\* ParsedToolMention, as parse_tool_mentions builds it from a display text and
\* a tool id found at start_index
MentionOf(display, tool_id, start_index) ==
    [id |-> tool_id, display |-> display, type |-> determine_tool_type(tool_id),
     original_text |-> <<"@","[">> \o display \o <<"]","(">> \o tool_id \o <<")">>,
     start_index |-> start_index,
     end_index |-> start_index + Len(display) + Len(tool_id) + 5]

FetchMentions ==
    {MentionOf(<<"G","m","a","i","l">>, <<"a","v","a","i","l","a","b","l","e","_","c","o","m","p","o","s","i","o","_","g","m","a","i","l">>, 0),
     MentionOf(<<"G">>, <<"c","o","m","p","o","s","i","o","_","G","m","a","i","l","_","s","e","n","d">>, 0),
     MentionOf(<<"S","l","a","c","k">>, <<"a","v","a","i","l","a","b","l","e","_","c","o","m","p","o","s","i","o","_","s","l","a","c","k">>, 0),
     MentionOf(<<"E">>, <<"c","o","m","p","o","s","i","o","_">>, 0),
     MentionOf(<<"T">>, <<"c","u","s","t","o","m","_","m","c","p","_","t">>, 0)}

MentionLists == UNION {[1..n -> FetchMentions] : n \in 0..MaxMentions}

\* ToolInformationFetcher._extract_app_key_from_mention
extract_app_key_from_mention(mention) ==
    StrLower(FirstPart(RemoveAll(RemoveAll(mention.id, <<"a","v","a","i","l","a","b","l","e","_","c","o","m","p","o","s","i","o","_">>), <<"c","o","m","p","o","s","i","o","_">>)))

\* ToolInformation (description and input_schema left out); app_key <<>> is None
NoAppKey == <<>>
ToolInfo(name, app_key, mcp_url, error) ==
    [name |-> name, app_key |-> app_key, mcp_url |-> mcp_url, error |-> error]
ErrorInfo(app_key, error) == ToolInfo(app_key, app_key, NoUrl, error)

\* what create_user_mcp_connection_no_storage does for the fetcher: the
\* attribute is absent (raises), the call runs into the 30 s timeout, or one
\* of the outcomes of the Composio requests
ConnectionOutcomes == {"absent", "timeout"} \cup ComposioOutcomes

\* entries of discovery_result["tools"]: dicts, and one that is not a dict
ToolT1 == [dict |-> TRUE, name |-> <<"S","E","N","D">>]
ToolT2 == [dict |-> TRUE, name |-> <<"F","E","T","C","H">>]
ToolBad == [dict |-> FALSE, name |-> <<>>]
ToolEntries == {ToolT1, ToolT2, ToolBad}
MaxTools == 2
ToolLists == UNION {[1..n -> ToolEntries] : n \in 1..MaxTools}

\* what discover_custom_tools does: raises, times out, returns None, returns
\* something that is not a dict, returns a dict with no tools, or a dict
\* with a list of tools
DiscoveryOutcomes ==
    {[kind |-> k, tools |-> <<>>] : k \in {"raises", "timeout", "none", "not_dict", "no_tools"}}
    \cup {[kind |-> "tools", tools |-> t] : t \in ToolLists}
NoDiscovery == [kind |-> "unused", tools |-> <<>>]

\* lines 144-160: one record per tool; tool.get on an entry that is not a dict
\* raises, and so does the tool.get in the log message of the handler, which
\* ends the loop with the records built so far
RECURSIVE ProcessTools(_, _, _)
ProcessTools(tools, app_key, url) ==
    IF tools = <<>> THEN [records |-> <<>>, raised |-> FALSE]
    ELSE IF ~Head(tools).dict THEN [records |-> <<>>, raised |-> TRUE]
    ELSE LET rest == ProcessTools(Tail(tools), app_key, url)
         IN  [records |-> <<ToolInfo(Head(tools).name, app_key, url, "none")>> \o rest.records,
              raised |-> rest.raised]

\* the body of the loop over app_keys (lines 88-185): the records appended
\* for one app
FetchOneApp(app_key, session, conn, disc) ==
    IF conn = "absent" THEN <<ErrorInfo(app_key, "Failed to fetch tool information")>>
    ELSE IF conn = "timeout" THEN <<ErrorInfo(app_key, "Timeout fetching tool information")>>
    ELSE LET connection == create_user_mcp_connection_no_storage(app_key, session, conn)
         IN  IF ~connection.success \/ connection.mcp_url = NoUrl
             THEN <<ErrorInfo(app_key, "MCP connection not available")>>
             ELSE CASE disc.kind = "raises" ->
                         <<ErrorInfo(app_key, "Failed to fetch tool information")>>
                    [] disc.kind = "timeout" ->
                         <<ErrorInfo(app_key, "Timeout fetching tool information")>>
                    [] disc.kind \in {"none", "not_dict"} ->
                         <<ErrorInfo(app_key, "Invalid tool discovery response")>>
                    [] disc.kind = "no_tools" ->
                         <<ErrorInfo(app_key, "No tools available")>>
                    [] OTHER ->
                         LET p == ProcessTools(disc.tools, app_key, connection.mcp_url)
                         IN  IF p.raised
                             THEN p.records \o
                                  <<ErrorInfo(app_key, "Failed to fetch tool information")>>
                             ELSE p.records

\* _fetch_custom_mcp_tool_info: a placeholder per custom or configured mention
RECURSIVE FetchCustomInfo(_)
FetchCustomInfo(mentions) ==
    IF mentions = <<>> THEN <<>>
    ELSE (IF Head(mentions).type \in {"custom_mcp", "configured_mcp"}
          THEN <<ToolInfo(Head(mentions).display, NoAppKey, NoUrl,
                          "Custom MCP tool information fetching not yet implemented")>>
          ELSE <<>>) \o FetchCustomInfo(Tail(mentions))

InitFetch ==
    /\ IdleClado /\ IdleDb /\ IdleRate /\ IdleAdmin /\ IdleBilling
    /\ ePc = "fetch" /\ eIn \in MentionLists /\ eOut = <<>>

\* fetch_tool_information up to the loop over the set app_keys
FetchBegin ==
    /\ ePc = "fetch"
    /\ ePc' = "apps"
    /\ eOut' = [todo |-> {extract_app_key_from_mention(eIn[i]) :
                             i \in {j \in 1..Len(eIn) : eIn[j].type = "composio_mcp"}} \ {<<>>},
                result |-> <<>>, calls |-> <<>>]
    /\ UNCHANGED <<eIn, coreVars, billVars>>

\* one iteration of the loop, for an app key of the set in any order
FetchApp(k, conn, disc) ==
    /\ ePc = "apps"
    /\ k \in eOut.todo
    /\ (disc = NoDiscovery) <=> (conn \notin {"sse", "fallback"})
    /\ eOut' = [todo |-> eOut.todo \ {k},
                result |-> eOut.result \o FetchOneApp(k, SessionOf(Len(eOut.calls)), conn, disc),
                calls |-> Append(eOut.calls,
                                 [app |-> k, disc |-> disc,
                                  url |-> GenerateComposioMcpUrl(k, SessionOf(Len(eOut.calls)), conn)])]
    /\ UNCHANGED <<ePc, eIn, coreVars, billVars>>

\* the custom mentions and the return
FetchReturn ==
    /\ ePc = "apps"
    /\ eOut.todo = {}
    /\ ePc' = "fetched"
    /\ eOut' = [eOut EXCEPT !.result = @ \o FetchCustomInfo(eIn)]
    /\ UNCHANGED <<eIn, coreVars, billVars>>

NextFetch ==
    \/ FetchBegin
    \/ \E k \in {extract_app_key_from_mention(m) : m \in FetchMentions},
          conn \in ConnectionOutcomes, disc \in DiscoveryOutcomes \cup {NoDiscovery} :
          FetchApp(k, conn, disc)
    \/ FetchReturn

SpecFetch == InitFetch /\ [][NextFetch]_vars

-----------------------------------------------------------------------------
(* CladoTool tool methods                                                  *)

QueryMethods == {"search_linkedin_users", "search_linkedin_companies", "start_deep_research"}
OneOfMethods == {"enrich_linkedin_profile", "get_linkedin_contacts"}
UrlMethods   == {"scrape_linkedin_profile", "get_linkedin_post_reactions"}
ToolMethods  == QueryMethods \cup OneOfMethods \cup UrlMethods \cup {"get_deep_research_status"}

\* the HTTP method a tool method passes to _make_request
HttpMethodOf(m) == IF m = "start_deep_research" THEN <<"P","O","S","T">> ELSE <<"G","E","T">>

\* argument values: the query, URL or job id (s), email, phone, limit,
\* acceptance_threshold and page of a call; a method ignores those it does
\* not take
StrArgs == {PyStr(<<"q">>), PyStr(<<>>), PyInt(5), PyNone}
OptArgs == {PyStr(<<"x">>), PyStr(<<>>), PyNone}
LimitArgs == {PyInt(n) : n \in {-1, 0, 1, 30, 100, 101}} \cup {PyNone}
ThresholdArgs == {PyInt(n) : n \in {-1, 0, 73, 100, 101}}
PageArgs == {PyInt(n) : n \in {-1, 0, 1, 2}} \cup {PyNone}
ToolArgs(m, s, email, phone, limit, threshold, page) ==
    [method |-> m, s |-> s, email |-> email, phone |-> phone,
     limit |-> limit, threshold |-> threshold, page |-> page]
ToolCalls ==
    {ToolArgs(m, s, PyNone, PyNone, l, t, PyNone) :
        m \in QueryMethods, s \in StrArgs, l \in LimitArgs, t \in ThresholdArgs}
    \cup {ToolArgs(m, s, e, p, PyNone, PyNone, PyNone) :
        m \in OneOfMethods, s \in OptArgs, e \in OptArgs, p \in OptArgs}
    \cup {ToolArgs("scrape_linkedin_profile", s, PyNone, PyNone, PyNone, PyNone, PyNone) :
        s \in StrArgs}
    \cup {ToolArgs("get_deep_research_status", s, PyNone, PyNone, PyNone, PyNone, PyNone) :
        s \in StrArgs}
    \cup {ToolArgs("get_linkedin_post_reactions", s, PyNone, PyNone, PyNone, PyNone, pg) :
        s \in StrArgs, pg \in PageArgs}

\* min and max of two integers
PyMaxAsMin(a, b) == IF a <= b THEN a ELSE b
PyMin(a, b) == IF b < a THEN b ELSE a
PyMax(a, b) == IF b > a THEN b ELSE a

\* what the try body of a tool method comes to: it returns a ToolResult,
\* raises, or goes on to _make_request with the parameters it built
Returns(success, msg) == [kind |-> "return", success |-> success, msg |-> msg, params |-> <<>>]
Raises(msg) == [kind |-> "raise", success |-> FALSE, msg |-> msg, params |-> <<>>]
Requests(params) == [kind |-> "request", success |-> FALSE, msg |-> "", params |-> params]

\* the limit, acceptance_threshold and page of a request (<<>>: not sent)
NoParams == [limit |-> <<>>, threshold |-> <<>>, page |-> <<>>]

\* `if limit < 1 or limit > 100: limit = min(max(limit, 1), 100)`
ClampLimit(limit) ==
    IF limit < 1 \/ limit > 100 THEN PyMin(PyMax(limit, 1), 100) ELSE limit
\* `if acceptance_threshold < 0 or acceptance_threshold > 100:
\*      acceptance_threshold = max(min(acceptance_threshold, 100), 0)`
ClampThreshold(t) ==
    IF t < 0 \/ t > 100 THEN PyMax(PyMin(t, 100), 0) ELSE t

\* the try body of a tool method up to its call of _make_request; comparing
\* a value that is not a number with an integer raises TypeError
ToolValidate(a) ==
    CASE a.method \in QueryMethods ->
            IF ~Truthy(a.s) \/ a.s.kind # "str"
            THEN Returns(FALSE, "A valid search query is required")
            ELSE IF a.limit.kind # "int" \/ a.threshold.kind # "int"
            THEN Raises("TypeError")
            ELSE Requests([NoParams EXCEPT !.limit = <<ClampLimit(a.limit.num)>>,
                                           !.threshold = <<ClampThreshold(a.threshold.num)>>])
      [] a.method \in OneOfMethods ->
            IF Cardinality({f \in {"s", "email", "phone"} : Truthy(a[f])}) # 1
            THEN Returns(FALSE, "Exactly one identifier must be provided")
            ELSE Requests(NoParams)
      [] a.method = "scrape_linkedin_profile" ->
            IF ~Truthy(a.s) \/ a.s.kind # "str"
            THEN Returns(FALSE, "A valid LinkedIn URL is required")
            ELSE Requests(NoParams)
      [] a.method = "get_linkedin_post_reactions" ->
            IF ~Truthy(a.s) \/ a.s.kind # "str"
            THEN Returns(FALSE, "A valid LinkedIn post URL is required")
            ELSE IF a.page.kind # "int" THEN Raises("TypeError")
            ELSE Requests([NoParams EXCEPT
                              !.page = <<IF a.page.num < 1 THEN 1 ELSE a.page.num>>])
      [] OTHER ->
            IF ~Truthy(a.s) \/ a.s.kind # "str"
            THEN Returns(FALSE, "A valid job ID is required")
            ELSE Requests(NoParams)

\* the JSON body of a 2xx answer: not a dict, a dict without the fields the
\* method reads, a dict whose data reports an error, or a complete dict
ResponseShapes == {"not_dict", "empty", "error_entry", "full"}

\* the try body of a tool method after _make_request returned `response`
ProcessResponse(m, shape) ==
    IF shape = "not_dict" THEN Raises("AttributeError")
    ELSE CASE m \in {"search_linkedin_users", "search_linkedin_companies",
                     "get_deep_research_status"} -> Returns(TRUE, "")
           [] m = "start_deep_research" ->
                 IF shape = "empty"
                 THEN Returns(FALSE, "Failed to start deep research job - no job ID returned")
                 ELSE Returns(TRUE, "")
           [] m \in OneOfMethods ->
                 IF shape = "empty" THEN Returns(FALSE, "No data found for the provided identifier")
                 ELSE IF shape = "error_entry" THEN Returns(FALSE, "Not found")
                 ELSE Returns(TRUE, "")
           [] OTHER ->
                 IF shape \in {"empty", "error_entry"}
                 THEN Returns(FALSE, "No data found for the provided URL")
                 ELSE Returns(TRUE, "")

\* a ToolResult, and a call that ended by raising
ToolResult(success, msg) == [kind |-> "ToolResult", success |-> success, msg |-> msg]
Raised(msg) == [kind |-> "raised", success |-> FALSE, msg |-> msg]
NoToolResult == [kind |-> "none", success |-> FALSE, msg |-> ""]

\* a tool method without its except clause
ExceptNothing(v) ==
    IF v.kind = "raise" THEN Raised(v.msg) ELSE ToolResult(v.success, v.msg)
\* `except Exception as e: return self.fail_response(...)` around the try body
ExceptException(v) ==
    IF v.kind = "raise" THEN ToolResult(FALSE, "Failed") ELSE ToolResult(v.success, v.msg)

\* the answers of the Clado API the tool methods are run against
ToolHttpOutcomes ==
    {o \in HttpOutcomes : o.kind \in {"timeout", "badjson"} \/ o.code \in {200, 401, 404, 500}}

InitTools ==
    /\ IdleClado /\ IdleDb /\ IdleRate /\ IdleAdmin /\ IdleBilling
    /\ ePc = "tool" /\ eIn \in ToolCalls /\ eOut = [result |-> NoToolResult, sent |-> NoParams]

\* a tool method from its entry to its return or its call of _make_request
ToolBegin ==
    /\ ePc = "tool"
    /\ cPc = "idle"
    /\ LET v == ToolValidate(eIn)
       IN  IF v.kind = "request"
           THEN /\ ePc' = "request"
                /\ eOut' = [eOut EXCEPT !.sent = v.params]
                /\ cPc' = "loop"
                /\ cMethod' = HttpMethodOf(eIn.method)
                /\ cAttempt' = 0
                /\ cHttp' = <<>>
                /\ cSleeps' = <<>>
                /\ cResult' = NoResult
           ELSE /\ ePc' = "returned"
                /\ eOut' = [eOut EXCEPT !.result = ExceptException(v)]
                /\ UNCHANGED cladoVars
    /\ UNCHANGED <<eIn, dbVars, rateVars, adminVars, billVars>>

\* an iteration of _make_request on behalf of the tool method
ToolAttempt(o) ==
    /\ ePc = "request"
    /\ MakeRequestAttempt(o)

\* the tool method after _make_request returned or raised
ToolFinish(shape) ==
    /\ ePc = "request"
    /\ cPc = "done"
    /\ (cResult.kind = "json") \/ (shape = "not_dict")
    /\ ePc' = "returned"
    /\ eOut' = [eOut EXCEPT !.result =
                   ExceptException(IF cResult.kind = "raise" THEN Raises(cResult.msg)
                                   ELSE ProcessResponse(eIn.method, shape))]
    /\ UNCHANGED <<eIn, coreVars, billVars>>

NextTools ==
    \/ ToolBegin
    \/ \E o \in ToolHttpOutcomes : ToolAttempt(o)
    \/ \E shape \in ResponseShapes : ToolFinish(shape)

SpecTools == InitTools /\ [][NextTools]_vars

-----------------------------------------------------------------------------
(* ComposioMCPService.validate_app_key as a function of its argument       *)

\* the values validate_app_key is applied to: the supported keys, the same
\* with a final newline, other texts, and values that are not strings
OtherKeyTexts ==
    {<<>>, <<"f","o","o">>, <<"D","i","s","c","o","r","d">>, <<"a","_","b">>, <<"h","a","s"," ","s","p","a","c","e">>, <<"x","-","1">>, <<"\n">>, <<"f","o","o","\n">>,
     <<"\n","f","o","o">>, Repeat("x", MaxAppKeyLen), Repeat("x", MaxAppKeyLen + 1),
     Repeat("X", MaxAppKeyLen + 1), Repeat("x", MaxAppKeyLen) \o <<"\n">>}
AppKeyInputs ==
    {PyStr(k) : k \in SupportedKeys}
    \cup {PyStr(k \o <<"\n">>) : k \in SupportedKeys}
    \cup {PyStr(k) : k \in OtherKeyTexts}
    \cup {PyNone, PyInt(0), PyInt(7)}

InitValidate ==
    /\ IdleClado /\ IdleDb /\ IdleRate /\ IdleAdmin /\ IdleBilling
    /\ ePc = "key" /\ eIn \in AppKeyInputs /\ eOut = <<>>

ValidateAppKeyCall ==
    /\ ePc = "key"
    /\ ePc' = "validated"
    /\ eOut' = validate_app_key(eIn)
    /\ UNCHANGED <<eIn, coreVars, billVars>>

SpecValidate == InitValidate /\ [][ValidateAppKeyCall]_vars

-----------------------------------------------------------------------------
(* ToolMentionProcessor.extract_composio_app_keys                          *)

MaxKeyMentions == 3

\* _extract_app_key_from_id without the lower()
ExtractKeepCase(tool_id) ==
    FirstPart(RemoveAll(RemoveAll(tool_id, <<"a","v","a","i","l","a","b","l","e","_","c","o","m","p","o","s","i","o","_">>), <<"c","o","m","p","o","s","i","o","_">>))
\* ToolMentionProcessor._extract_app_key_from_id
extract_app_key_from_id(tool_id) ==
    StrLower(FirstPart(RemoveAll(RemoveAll(tool_id, <<"a","v","a","i","l","a","b","l","e","_","c","o","m","p","o","s","i","o","_">>), <<"c","o","m","p","o","s","i","o","_">>)))

\* extract_composio_app_keys: the loop over the mentions, app_keys being the
\* list built so far
RECURSIVE ExtractLoop(_, _)
ExtractLoop(mentions, app_keys) ==
    IF mentions = <<>> THEN app_keys
    ELSE LET mention == Head(mentions)
             app_key == extract_app_key_from_id(mention.id)
         IN  IF mention.type = "composio_mcp" /\ app_key # <<>> /\ app_key \notin Range(app_keys)
             THEN ExtractLoop(Tail(mentions), Append(app_keys, app_key))
             ELSE ExtractLoop(Tail(mentions), app_keys)
extract_composio_app_keys(mentions) == ExtractLoop(mentions, <<>>)

KeyMentions ==
    {MentionOf(<<"G","m","a","i","l">>, <<"a","v","a","i","l","a","b","l","e","_","c","o","m","p","o","s","i","o","_","g","m","a","i","l">>, 0),
     MentionOf(<<"G">>, <<"c","o","m","p","o","s","i","o","_","G","m","a","i","l","_","s","e","n","d">>, 0),
     MentionOf(<<"S","l","a","c","k">>, <<"a","v","a","i","l","a","b","l","e","_","c","o","m","p","o","s","i","o","_","s","l","a","c","k">>, 0),
     MentionOf(<<"S">>, <<"c","o","m","p","o","s","i","o","_","S","L","A","C","K">>, 0),
     MentionOf(<<"T">>, <<"a","v","a","i","l","a","b","l","e","_","c","o","m","p","o","s","i","o","_","m","i","c","r","o","s","o","f","t","-","t","e","a","m","s">>, 0),
     MentionOf(<<"E">>, <<"c","o","m","p","o","s","i","o","_">>, 0),
     MentionOf(<<"C">>, <<"c","u","s","t","o","m","_","m","c","p","_","g","m","a","i","l">>, 0)}
KeyMentionLists == UNION {[1..n -> KeyMentions] : n \in 0..MaxKeyMentions}

InitKeys ==
    /\ IdleClado /\ IdleDb /\ IdleRate /\ IdleAdmin /\ IdleBilling
    /\ ePc = "mentions" /\ eIn \in KeyMentionLists /\ eOut = <<>>

ExtractComposioAppKeysCall ==
    /\ ePc = "mentions"
    /\ ePc' = "keys"
    /\ eOut' = extract_composio_app_keys(eIn)
    /\ UNCHANGED <<eIn, coreVars, billVars>>

SpecKeys == InitKeys /\ [][ExtractComposioAppKeysCall]_vars

-----------------------------------------------------------------------------
(* ToolMentionProcessor.parse_tool_mentions and has_tool_mentions          *)

MaxFragments == 3

\* the first position at or after i where s holds c, 0 when there is none
IndexFrom(s, c, i) ==
    LET at == {j \in i..Len(s) : s[j] = c}
    IN  IF at = {} THEN 0 ELSE CHOOSE j \in at : \A k \in at : j <= k

\* MENTION_REGEX = @\[([^\]]+)\]\(([^)]+)\) tried at position i (1-based):
\* the position of the closing bracket of the display text and of the closing
\* parenthesis that ends the match, or none. [^\]]+ runs up to the first "]"
\* and [^)]+ up to the first ")", each over at least one character.
NoMatch == [ok |-> FALSE, rb |-> 0, rp |-> 0]
MatchAt(s, i) ==
    IF i + 1 > Len(s) \/ s[i] # "@" \/ s[i + 1] # "[" THEN NoMatch
    ELSE LET rb == IndexFrom(s, "]", i + 2)
         IN  IF rb = 0 \/ rb = i + 2 THEN NoMatch
             ELSE IF rb + 1 > Len(s) \/ s[rb + 1] # "(" THEN NoMatch
             ELSE LET rp == IndexFrom(s, ")", rb + 2)
                  IN  IF rp = 0 \/ rp = rb + 2 THEN NoMatch
                      ELSE [ok |-> TRUE, rb |-> rb, rp |-> rp]

\* the ParsedToolMention parse_tool_mentions builds from the match at i:
\* match.groups(), match.start(), match.end() and match.group(0)
MatchMention(s, i) ==
    LET m == MatchAt(s, i)
        tool_id == SubSeq(s, m.rb + 2, m.rp - 1)
    IN  [id |-> tool_id, display |-> SubSeq(s, i + 2, m.rb - 1),
         type |-> determine_tool_type(tool_id),
         original_text |-> SubSeq(s, i, m.rp),
         start_index |-> i - 1, end_index |-> m.rp]

\* a scan that goes on one character after the start of a match
RECURSIVE FindIterFromNextChar(_, _)
FindIterFromNextChar(s, from) ==
    LET starts == {i \in from..Len(s) : MatchAt(s, i).ok}
    IN  IF starts = {} THEN <<>>
        ELSE LET i == CHOOSE i \in starts : \A j \in starts : i <= j
             IN  <<MatchMention(s, i)>> \o FindIterFromNextChar(s, i + 1)

\* MENTION_REGEX.finditer(message) from position `from`: the leftmost match,
\* then the scan goes on after its end
RECURSIVE FindIter(_, _)
FindIter(s, from) ==
    LET starts == {i \in from..Len(s) : MatchAt(s, i).ok}
    IN  IF starts = {} THEN <<>>
        ELSE LET i == CHOOSE i \in starts : \A j \in starts : i <= j
             IN  <<MatchMention(s, i)>> \o FindIter(s, MatchAt(s, i).rp + 1)

parse_tool_mentions(message) == FindIter(message, 1)

\* bool(MENTION_REGEX.search(message))
has_tool_mentions(message) == \E i \in 1..Len(message) : MatchAt(message, i).ok

\* the messages: up to MaxFragments pieces of text, complete mentions and
\* parts of mentions
Fragments ==
    {<<"@","[","G","]","(","c","o","m","p","o","s","i","o","_","g",")">>, <<"@","[","T","]","(","u",")">>, <<"@","[">>, <<"]","(">>, <<")">>, <<"h","i"," ">>, <<"@","[","a">>, <<"]">>, <<"@","[","]","(">>}
RECURSIVE Concat(_)
Concat(parts) == IF parts = <<>> THEN <<>> ELSE Head(parts) \o Concat(Tail(parts))
Messages == {Concat(p) : p \in UNION {[1..n -> Fragments] : n \in 0..MaxFragments}}

InitParse ==
    /\ IdleClado /\ IdleDb /\ IdleRate /\ IdleAdmin /\ IdleBilling
    /\ ePc = "message" /\ eIn \in Messages /\ eOut = <<>>

\* has_tool_mentions(message) and parse_tool_mentions(message)
ParseCall ==
    /\ ePc = "message"
    /\ ePc' = "parsed"
    /\ eOut' = [has |-> has_tool_mentions(eIn), mentions |-> parse_tool_mentions(eIn)]
    /\ UNCHANGED <<eIn, coreVars, billVars>>

SpecParse == InitParse /\ [][ParseCall]_vars

-----------------------------------------------------------------------------
(* ToolMentionProcessor.create_tool_context_prompt                         *)

MaxInfos == 4

\* `valid_tools[:2]`: the tools whose technical details are given
DetailedTools == 2

\* `tool.app_key or "unknown"`
AppOf(tool) == IF tool.app_key = NoAppKey THEN <<"u","n","k","n","o","w","n">> ELSE tool.app_key

\* the keys of tools_by_app in the order of their insertion
RECURSIVE AppsInOrder(_, _)
AppsInOrder(tools, seen) ==
    IF tools = <<>> THEN seen
    ELSE AppsInOrder(Tail(tools),
                     IF AppOf(Head(tools)) \in Range(seen) THEN seen
                     ELSE Append(seen, AppOf(Head(tools))))

\* tools_by_app[app_key]
ToolsOfApp(tools, app) == SelectSeq(tools, LAMBDA t : AppOf(t) = app)

\* a list of tools taken whole
EveryTool(tools) == tools
\* `[t for t in tools if not t.error]` and `[t for t in tools if t.error]`
ValidTools(tools) == SelectSeq(tools, LAMBDA t : t.error = "none")
ErrorTools(tools) == SelectSeq(tools, LAMBDA t : t.error # "none")

\* a line of the prompt: what it is, the app it is headed with, the tool
\* names it holds and the count it reports
PromptLine(kind, app, names, count) ==
    [kind |-> kind, app |-> app, names |-> names, count |-> count]
NamesOf(tools) == [i \in 1..Len(tools) |-> tools[i].name]
FirstN(s, n) == SubSeq(s, 1, IF Len(s) < n THEN Len(s) ELSE n)

\* the lines appended for one app (lines 191-231)
AppLines(tools, app) ==
    LET of    == ToolsOfApp(tools, app)
        valid == ValidTools(of)
        bad   == ErrorTools(of)
    IN  (IF valid # <<>>
         THEN <<PromptLine("functions", StrUpper(app), NamesOf(valid), Len(valid)),
                PromptLine("guidance", app, <<>>, 0),
                PromptLine("details_header", <<>>, <<>>, 0)>>
              \o [i \in 1..Len(FirstN(valid, DetailedTools)) |->
                     PromptLine("detail", <<>>, <<valid[i].name>>, 0)]
              \o (IF Len(valid) > DetailedTools
                  THEN <<PromptLine("more", <<>>, <<>>, Len(valid) - DetailedTools)>>
                  ELSE <<>>)
         ELSE <<>>)
        \o (IF bad # <<>>
            THEN <<PromptLine("unavailable", StrUpper(app), <<>>, Len(bad))>>
            ELSE <<>>)

RECURSIVE AllAppLines(_, _)
AllAppLines(tools, apps) ==
    IF apps = <<>> THEN <<>>
    ELSE AppLines(tools, Head(apps)) \o AllAppLines(tools, Tail(apps))

\* create_tool_context_prompt: the lines joined by "\n"; <<>> is the empty
\* string
create_tool_context_prompt(tool_info_list) ==
    IF tool_info_list = <<>> THEN <<>>
    ELSE <<PromptLine("title", <<>>, <<>>, 0), PromptLine("intro", <<>>, <<>>, 0)>>
         \o AllAppLines(tool_info_list, AppsInOrder(tool_info_list, <<>>))
         \o <<PromptLine("workflow", <<>>, <<>>, 0), PromptLine("end", <<>>, <<>>, 0)>>

\* the tool records a prompt is made for
PromptTools ==
    {ToolInfo(n, <<"g","m","a","i","l">>, [app |-> <<"g","m","a","i","l">>, session |-> 1, via |-> "sse"], "none") :
        n \in {<<"S","E","N","D">>, <<"F","E","T","C","H">>, <<"R","E","P","L","Y">>}}
    \cup {ErrorInfo(<<"g","m","a","i","l">>, "No tools available"),
          ToolInfo(<<"P","O","S","T">>, <<"s","l","a","c","k">>, [app |-> <<"s","l","a","c","k">>, session |-> 2, via |-> "sse"], "none"),
          ErrorInfo(<<"s","l","a","c","k">>, "MCP connection not available"),
          ToolInfo(<<"T">>, NoAppKey, NoUrl,
                   "Custom MCP tool information fetching not yet implemented")}
ToolInfoLists == UNION {[1..n -> PromptTools] : n \in 0..MaxInfos}

InitPrompt ==
    /\ IdleClado /\ IdleDb /\ IdleRate /\ IdleAdmin /\ IdleBilling
    /\ ePc = "infos" /\ eIn \in ToolInfoLists /\ eOut = <<>>

CreateToolContextPromptCall ==
    /\ ePc = "infos"
    /\ ePc' = "prompt"
    /\ eOut' = create_tool_context_prompt(eIn)
    /\ UNCHANGED <<eIn, coreVars, billVars>>

SpecPrompt == InitPrompt /\ [][CreateToolContextPromptCall]_vars

-----------------------------------------------------------------------------
(* scripts/sync_stripe_to_database.py                                      *)

\* the Stripe customers with a row in billing_customers and the
\* subscriptions Stripe holds for them
SyncCustomers == {1, 2}
SyncSubs == {[id |-> 1, customer |-> 1], [id |-> 2, customer |-> 1],
             [id |-> 3, customer |-> 2]}
SubIds(subs) == {s.id : s \in subs}

\* the two queries before the loop; one that raises ends the run
SyncFailures == {"none", "customers_query", "subscriptions_query"}

\* what is known of the latest run: its return value, the ids it inserted,
\* skipped and failed to insert, the customers whose Stripe listing raised,
\* the ids billing_subscriptions held when it began, and of the run before
\* it: whether it returned with every insert succeeding, the ids it
\* inserted and the customers whose listing raised
NoSync == [ret |-> PyNone, raised |-> FALSE, fail |-> "none", inserted |-> {},
           skipped |-> {}, insertFailed |-> {}, listFailed |-> {},
           existingBefore |-> {}, afterCleanRun |-> FALSE,
           prevInserted |-> {}, prevListFailed |-> {}]

\* sync_stripe_subscriptions_to_database(client). `fail`: the query that
\* raises; `listFail`: the customers for whom stripe.Subscription.list
\* raises; `insertFail`: the subscription ids whose insert raises.
SyncStripeSubscriptionsToDatabase(fail, listFail, insertFail) ==
    /\ bRuns < MaxRuns
    /\ bRuns' = bRuns + 1
    /\ LET clean == bRuns >= 1 /\ ~bLast.raised /\ bLast.insertFailed = {}
           out(ret, raised, ins, skip, bad, lf) ==
               [ret |-> ret, raised |-> raised, fail |-> fail, inserted |-> ins,
                skipped |-> skip, insertFailed |-> bad, listFailed |-> lf,
                existingBefore |-> dbSubs, afterCleanRun |-> clean,
                prevInserted |-> bLast.inserted, prevListFailed |-> bLast.listFailed]
       IN  IF fail = "customers_query"
           THEN /\ listFail = {} /\ insertFail = {}
                /\ bLast' = out(PyNone, TRUE, {}, {}, {}, {})
                /\ UNCHANGED dbSubs
           ELSE IF dbCustomers = {}
           THEN /\ fail = "none" /\ listFail = {} /\ insertFail = {}
                /\ bLast' = out(PyNone, FALSE, {}, {}, {}, {})
                /\ UNCHANGED dbSubs
           ELSE IF fail = "subscriptions_query"
           THEN /\ listFail = {} /\ insertFail = {}
                /\ bLast' = out(PyNone, TRUE, {}, {}, {}, {})
                /\ UNCHANGED dbSubs
           ELSE LET existing_subs == dbSubs
                    listed == {s \in stripeSubs :
                                  s.customer \in dbCustomers /\ s.customer \notin listFail}
                    skip   == {s.id : s \in {t \in listed : t.id \in existing_subs}}
                    tried  == SubIds(listed) \ existing_subs
                    synced == tried \ insertFail
                IN  /\ listFail \subseteq dbCustomers
                    /\ insertFail \subseteq tried
                    /\ dbSubs' = dbSubs \cup synced
                    /\ bLast' = out(PyInt(Cardinality(synced)), FALSE, synced, skip,
                                    tried \cap insertFail, listFail)
    /\ UNCHANGED <<stripeCustomers, stripeSubs, dbCustomers, coreVars, evalVars>>

\* before the first run: some of the customers have a billing_customers row,
\* Stripe holds some subscriptions, and some of them are in
\* billing_subscriptions already
InitSync ==
    /\ IdleClado /\ IdleDb /\ IdleRate /\ IdleAdmin /\ IdleEval
    /\ bRuns = 0
    /\ stripeCustomers = SyncCustomers
    /\ dbCustomers \in SUBSET SyncCustomers
    /\ stripeSubs \in SUBSET SyncSubs
    /\ dbSubs \in SUBSET SubIds(SyncSubs)
    /\ dbSubs \subseteq SubIds({s \in stripeSubs : s.customer \in dbCustomers})
    /\ bLast = NoSync

NextSync ==
    \E fail \in SyncFailures, listFail \in SUBSET SyncCustomers,
       insertFail \in SUBSET SubIds(SyncSubs) :
        SyncStripeSubscriptionsToDatabase(fail, listFail, insertFail)

SpecSync == InitSync /\ [][NextSync]_vars

-----------------------------------------------------------------------------
(* Properties                                                              *)

IsTimeoutOr5xx(o) == o.kind = "timeout" \/ (o.kind = "status" /\ o.code >= 500)

\* C1: whatever the Clado API answers, _make_request makes at most
\* max_retries HTTP attempts; a timeout or 5xx on attempt a (0-based) that is
\* not the last is followed by a sleep of 2^a seconds and another attempt; a
\* timeout or 5xx on the last attempt raises without a sleep; and the call
\* ends by returning the JSON body of a successful attempt or by raising,
\* never by returning no value.
C1_RetryBackoff ==
    /\ Len(cHttp) <= max_retries
    /\ Len(cSleeps) <= max_retries - 1
    /\ \A i \in 1..Len(cSleeps) : cSleeps[i] = 2^(i - 1)
    /\ \A i \in 1..Len(cHttp) :
          IsTimeoutOr5xx(cHttp[i]) =>
             IF i < max_retries
             THEN /\ Len(cSleeps) >= i
                  /\ cPc = "done" => Len(cHttp) > i
             ELSE /\ cPc = "done" /\ cResult.kind = "raise"
                  /\ Len(cSleeps) = max_retries - 1
    /\ cPc = "done" => cResult.kind \in {"json", "raise"}
    /\ cResult.kind = "json" =>
          /\ cHttp # <<>>
          /\ cHttp[Len(cHttp)].kind = "status"
          /\ IsSuccessStatus(cHttp[Len(cHttp)].code)
          /\ cResult.body = cHttp[Len(cHttp)].code

\* C1 witness: two retried failures, backoffs of 1 s and 2 s, then a timeout
\* on the third attempt, which raises.
C1_Witness ==
    /\ cPc = "done" /\ cResult.kind = "raise"
    /\ Len(cHttp) = max_retries
    /\ cHttp[1].kind = "status" /\ cHttp[1].code >= 500
    /\ cHttp[max_retries].kind = "timeout"
    /\ cSleeps = <<1, 2>>

\* the HTTP entries for app in the default agent of user
AppEntries(user, app) ==
    LET acct == AccountOf(NormalizeUserId(user))
    IN  IF acct = NoAccount THEN {}
        ELSE {i \in 1..Len(McpsOrEmpty(agents[acct])) :
                 MatchesApp(McpsOrEmpty(agents[acct])[i], app)}

C3_ConcurrentCallsAgree ==
    ~faulted =>
      \A p \in DOMAIN raceUrls :
         /\ \A i, j \in 1..Len(raceUrls[p]) : raceUrls[p][i] = raceUrls[p][j]
         /\ Len(raceUrls[p]) >= 2 => Cardinality(AppEntries(p[1], p[2])) = 1

\* C3 witness: two overlapping calls for one pair have both stored and returned.
C3_Witness ==
    ~faulted /\ pending = {} /\ \E p \in DOMAIN raceUrls : Len(raceUrls[p]) = 2

\* C4: once create-connection has returned success for (user, app), an
\* update-tools request for the same pair in which no Supabase request fails
\* returns success and leaves the selected tools as the entry's enabledTools.
C4_UpdateToolsAfterCreate ==
    (last.op = "update-tools" /\ <<last.user, last.app>> \in created /\ ~last.fault) =>
        /\ last.success
        /\ \E i \in AppEntries(last.user, last.app) :
              McpsOrEmpty(agents[AccountOf(NormalizeUserId(last.user))])[i].enabledTools
                 = last.tools

\* C4 witness: update-tools has been served after a successful create-connection.
C4_Witness ==
    /\ last.op = "update-tools" /\ <<last.user, last.app>> \in created /\ ~last.fault
    /\ AccountOf(NormalizeUserId(last.user)) # NoAccount

\* C6: a create_user_mcp_connection call for an app key that validate_app_key
\* rejects, or for a pair that check_rate_limit refuses, requests no MCP URL
\* from Composio and writes nothing to Supabase.
C6_CreateIsValidated ==
    (/\ last.op = "get_or_create"
     /\ \/ ~validate_app_key(PyStr(last.app)).ok
        \/ ~CheckRateLimit(rateCache, now, last.user, last.app).ok) =>
        ~last.composio /\ ~last.wrote

\* C6 witness: a create_user_mcp_connection call for a rejected app key has returned.
C6_Witness ==
    last.op = "get_or_create" /\ ~validate_app_key(PyStr(last.app)).ok

\* C8: after a get_or_create call has stored a connection for (user, app), the
\* list answered to that user (no Supabase failure) has an entry with that
\* app_key and that mcp_url, and every entry belongs to the user.
C8_ListShowsStored ==
    (last.op = "user-connections" /\ ~last.fault) =>
        /\ \A a \in DbApps :
              SetOf(stored, <<last.user, a>>) # {} =>
                 \E row \in last.rows :
                    row.app_key = a /\ row.mcp_url \in SetOf(stored, <<last.user, a>>)
        /\ \A row \in last.rows : row.user_id = NormalizeUserId(last.user)

\* C8 witness: the list was answered after a connection had been stored.
C8_Witness ==
    /\ last.op = "user-connections" /\ ~last.fault
    /\ \E a \in DbApps : SetOf(stored, <<last.user, a>>) # {}

\* C9: a get_or_create call never returns as an existing connection a URL
\* that was stored for the pair before a delete of the pair answered True.
C9_DeletedIsGone ==
    (last.op = "get_or_create" /\ last.existing) =>
        last.mcp_url \notin SetOf(deleted, <<last.user, last.app>>)

\* C9 witness: a get_or_create call has returned after the pair's connection
\* was stored and then deleted.
C9_Witness ==
    /\ last.op = "get_or_create" /\ ~last.fault
    /\ SetOf(deleted, <<last.user, last.app>>) # {}

\* C5: for every (user, app) the check_rate_limit calls answered True less
\* than a minute ago never number more than the app's rate_limit (60 when the
\* app has none configured), the cache entries of the last minute are exactly
\* those calls (a call answered False adds nothing), and a call is answered
\* False only when the limit is reached.
C5_SlidingWindow ==
    /\ \A p \in DOMAIN granted : Len(granted[p]) <= RateLimitOf(p[2])
    /\ \A p \in RatePairs :
          WithinMinute(SeqOf(rateCache, CacheKey(p[1], p[2])), now) = GrantedOf(granted, p)
    /\ RateLimitOf(AppFoo) = 60
    /\ (lastRate.op = "check" /\ lastRate.at = now) =>
          IF lastRate.ok
          THEN GrantedOf(granted, <<lastRate.user, lastRate.app>>) # <<>>
          ELSE Len(GrantedOf(granted, <<lastRate.user, lastRate.app>>))
                  = RateLimitOf(lastRate.app)

\* C5 witness: a call for an app without configuration is refused while the
\* 60 calls granted in the last minute span two different times.
C5_Witness ==
    /\ lastRate.op = "check" /\ ~lastRate.ok /\ lastRate.app = AppFoo /\ lastRate.at = now
    /\ LET g == GrantedOf(granted, <<lastRate.user, lastRate.app>>)
       IN  Len(g) = 60 /\ g[1] # g[Len(g)]

\* C7: create_user_mcp_connection_simple runs user-id validation, app-key
\* validation, the rate-limit check, session UUID generation and Composio URL
\* generation in that order and stops at the first check that fails, returning
\* success=False with that check's error; Composio is requested only after
\* the three checks passed, and a call rejected by validation leaves the
\* rate-limit cache as it was.
C7_SimpleOrder ==
    lastRate.op = "simple" =>
      LET uok == validate_user_id(PyStr(lastRate.user))
          aok == validate_app_key(PyStr(lastRate.app))
          n   == Len(lastRate.steps)
      IN  /\ n >= 1 /\ lastRate.steps = SubSeq(SimpleSteps, 1, n)
          /\ lastRate.composio <=> n = Len(SimpleSteps)
          /\ lastRate.ok => n = Len(SimpleSteps)
          /\ ~uok.ok =>
                /\ ~lastRate.ok /\ n = 1 /\ lastRate.cacheSame
                /\ lastRate.error = <<"Invalid user ID: ", uok.err>>
          /\ (uok.ok /\ ~aok.ok) =>
                /\ ~lastRate.ok /\ n = 2 /\ lastRate.cacheSame
                /\ lastRate.error = <<"Invalid app key: ", aok.err>>
          /\ (uok.ok /\ aok.ok) =>
                /\ n >= 3
                /\ n = 3 <=> lastRate.error = <<"", "Rate limit exceeded">>
                /\ n = 3 => /\ ~lastRate.ok
                            /\ lastRate.at = now =>
                                 Len(GrantedOf(granted, <<lastRate.user, lastRate.app>>))
                                    = RateLimitOf(lastRate.app)

\* C7 witness: a valid request has been refused by the rate limit.
C7_Witness ==
    /\ lastRate.op = "simple" /\ ~lastRate.ok /\ ~lastRate.composio
    /\ lastRate.steps = SubSeq(SimpleSteps, 1, 3)
    /\ lastRate.error = <<"", "Rate limit exceeded">>

\* the caller's email is not one of ADMIN_EMAILS compared case-insensitively,
\* the caller has none, or the lookup of the caller fails
NotAdminCaller(req) ==
    \/ req.lookup = "raise"
    \/ ~req.caller.found
    \/ req.caller.email.kind # "str"
    \/ \A i \in 1..Len(ADMIN_EMAILS) :
          StrLower(req.caller.email.chars) # StrLower(ADMIN_EMAILS[i])

\* C10: a request to any /admin endpoint from a caller who is not an admin
\* ends with HTTP 403 and the endpoint has listed no users, queried no
\* billing data and changed nothing in Stripe or the database.
C10_AdminOnly ==
    (aPc = "served" /\ NotAdminCaller(aReq)) => (aReq.status = 403 /\ aEffects = {})

\* C10 witness: add-user-to-pro was refused for a caller whose lookup failed.
C10_Witness ==
    /\ aPc = "served" /\ aReq.endpoint = "add-user-to-pro"
    /\ aReq.lookup = "raise" /\ aReq.status = 403 /\ aEffects = {}

\* C11: whenever add_user_to_pro_plan returns True, billing_subscriptions
\* holds a Pro-plan row for the user's account.
C11_TrueMeansRow == bLast.ret => dbSubs # {}

\* C11 witness: a run has returned True after an earlier run created the
\* Stripe subscription and failed to insert the row.
C11_Witness == bLast.ret /\ bRuns >= 2 /\ stripeSubs # {}

\* C12: across the runs at most one Stripe customer and at most one Pro
\* subscription are created for the user, and a run that finds an active Pro
\* subscription creates nothing.
C12_NoDuplicates ==
    /\ Cardinality(stripeCustomers) <= 1
    /\ Cardinality(stripeSubs) <= 1
    /\ bLast.foundActive => (~bLast.createdCustomer /\ ~bLast.createdSub)

\* C12 witness: a second run has found the active subscription of the first.
C12_Witness == bLast.foundActive /\ bRuns >= 2

\* the classification by the prefix of the id
TypeByPrefix(id) ==
    IF StartsWith(id, <<"c","o","n","f","i","g","u","r","e","d","_","m","c","p","_">>) \/ StartsWith(id, <<"d","e","f","a","u","l","t","_","c","o","n","f","i","g","u","r","e","d","_","m","c","p","_">>)
    THEN "configured_mcp"
    ELSE IF StartsWith(id, <<"c","u","s","t","o","m","_","m","c","p","_">>) \/ StartsWith(id, <<"d","e","f","a","u","l","t","_","c","u","s","t","o","m","_","m","c","p","_">>)
    THEN "custom_mcp"
    ELSE IF StartsWith(id, <<"c","o","m","p","o","s","i","o","_">>) \/ StartsWith(id, <<"a","v","a","i","l","a","b","l","e","_","c","o","m","p","o","s","i","o","_">>)
    THEN "composio_mcp"
    ELSE "unknown"

\* C13: a tool id is classified by its prefix: configured_mcp_ and
\* default_configured_mcp_ give 'configured_mcp', custom_mcp_ and
\* default_custom_mcp_ give 'custom_mcp', composio_ and available_composio_
\* give 'composio_mcp', and an id with none of these prefixes is 'unknown'.
C13_ClassifiedByPrefix == ePc = "typed" => eOut = TypeByPrefix(eIn)

\* C13 witness: an id with none of the six prefixes has been classified.
C13_Witness == ePc = "typed" /\ TypeByPrefix(eIn) = "unknown"

\* the records of a result that belong to an app
RecordsOf(result, app) == SelectSeq(result, LAMBDA r : r.app_key = app)

\* C14: fetch_tool_information returns whatever the connection or discovery
\* step does, and for every app key of the composio_mcp mentions its result
\* holds either one record per discovered tool, each without error and with
\* the connection's mcp_url, or exactly one record for the app, with error set.
C14_ToolsOrOneError ==
    ePc = "fetched" =>
        /\ {c.app : c \in Range(eOut.calls)} =
               {extract_app_key_from_mention(eIn[i]) :
                    i \in {j \in 1..Len(eIn) : eIn[j].type = "composio_mcp"}} \ {<<>>}
        /\ \A c \in Range(eOut.calls) :
               LET recs == RecordsOf(eOut.result, c.app)
               IN  \/ /\ Len(recs) = Len(c.disc.tools)
                      /\ Len(recs) >= 1
                      /\ \A i \in 1..Len(recs) :
                             recs[i].error = "none" /\ recs[i].mcp_url = c.url
                   \/ /\ Len(recs) = 1
                      /\ recs[1].error # "none"

\* C14 witness: the fetch returned after discovery gave a list of tools for
\* one app and failed for another.
C14_Witness ==
    /\ ePc = "fetched"
    /\ \E c \in Range(eOut.calls) : c.disc.kind = "tools"
    /\ \E c \in Range(eOut.calls) : c.disc.kind = "raises"

\* an error status below 500
IsClientError(o) == o.kind = "status" /\ ~IsSuccessStatus(o.code) /\ o.code < 500

\* the exception _make_request raises for an error status below 500
TranslatedError(code) ==
    CASE code = 401 -> "Invalid or expired Clado API key"
      [] code = 402 -> "Insufficient Clado API credits"
      [] code = 422 -> "Validation error"
      [] OTHER      -> "HTTP error"

\* C15: a 401, 402, 422 or any other error status below 500 raises its
\* translated exception on the attempt where it occurs: that attempt is the
\* last one of the call, and no backoff sleep follows it.
C15_ClientErrorIsImmediate ==
    \A i \in 1..Len(cHttp) :
        IsClientError(cHttp[i]) =>
            /\ i = Len(cHttp)
            /\ cPc = "done"
            /\ cResult = Raise(TranslatedError(cHttp[i].code))
            /\ Len(cSleeps) = i - 1

\* C15 witness: a 5xx answer was retried after a sleep and the second
\* attempt, with attempts remaining, got a 404.
C15_Witness ==
    /\ Len(cHttp) = 2 /\ max_retries > 2
    /\ cHttp[1].kind = "status" /\ cHttp[1].code >= 500
    /\ cHttp[2].kind = "status" /\ cHttp[2].code = 404
    /\ cPc = "done" /\ cResult.kind = "raise"

\* the value of an argument is an empty or non-string text
EmptyOrNotString(v) == v.kind # "str" \/ v.chars = <<>>

\* what C16 calls invalid input of a tool call
InvalidToolInput(a) ==
    IF a.method \in OneOfMethods
    THEN Cardinality({f \in {"s", "email", "phone"} : a[f] \notin {PyNone, PyStr(<<>>)}}) # 1
    ELSE EmptyOrNotString(a.s)

\* C16: every tool method returns a ToolResult and never raises; on invalid
\* input (an argument that is None or empty counts as not provided) it
\* returns a failure without sending an HTTP request; and an
\* exception escaping _make_request becomes a failure response.
C16_ToolsNeverRaise ==
    /\ ePc = "returned" => eOut.result.kind = "ToolResult"
    /\ (ePc # "tool" /\ InvalidToolInput(eIn)) =>
           /\ ePc = "returned"
           /\ ~eOut.result.success
           /\ cPc = "idle" /\ cHttp = <<>>
    /\ (ePc = "returned" /\ cResult.kind = "raise") => ~eOut.result.success

\* C16 witness: a call with valid input has returned after _make_request
\* raised on its last attempt.
C16_Witness ==
    /\ ePc = "returned" /\ ~InvalidToolInput(eIn)
    /\ cResult.kind = "raise" /\ Len(cHttp) = max_retries
    /\ eOut.result.kind = "ToolResult"

\* the integer of the given range nearest to n
NearestIn(n, lo, hi) == IF n < lo THEN lo ELSE IF n > hi THEN hi ELSE n

\* C17: the limit a search method sends is within 1..100 and the
\* acceptance_threshold within 0..100, an in-range argument unchanged and an
\* out-of-range one replaced by the nearest bound; get_linkedin_post_reactions
\* sends page 1 for any page below 1.
C17_ParametersClamped ==
    ePc \in {"request", "returned"} =>
        /\ (eIn.method \in QueryMethods /\ eOut.sent # NoParams) =>
              /\ eOut.sent.limit[1] \in 1..100
              /\ eOut.sent.threshold[1] \in 0..100
              /\ eOut.sent.limit[1] = NearestIn(eIn.limit.num, 1, 100)
              /\ eOut.sent.threshold[1] = NearestIn(eIn.threshold.num, 0, 100)
        /\ (eIn.method = "get_linkedin_post_reactions" /\ eOut.sent # NoParams) =>
              eOut.sent.page[1] = (IF eIn.page.num < 1 THEN 1 ELSE eIn.page.num)
        /\ (eIn.method \in QueryMethods /\ ~EmptyOrNotString(eIn.s)
                /\ eIn.limit.kind = "int" /\ eIn.threshold.kind = "int") =>
              eOut.sent # NoParams

\* C17 witness: a search was sent with a limit above 100 and a negative
\* acceptance_threshold.
C17_Witness ==
    /\ ePc = "request" /\ eIn.method \in QueryMethods
    /\ eIn.limit.kind = "int" /\ eIn.limit.num > 100
    /\ eIn.threshold.num < 0
    /\ Len(cHttp) >= 1

\* C17 witness for the page: a request for the reactions of a post was sent
\* for a page below 1.
C17_PageWitness ==
    /\ ePc = "request" /\ eIn.method = "get_linkedin_post_reactions"
    /\ eIn.page.kind = "int" /\ eIn.page.num < 1
    /\ Len(cHttp) >= 1

\* the answer C18 describes: valid exactly for the supported keys, otherwise
\* the message of the first failing check in the order empty, not a string,
\* too long, characters other than lowercase letters, digits and hyphens,
\* unsupported
FirstFailingCheck(v) ==
    IF v.kind = "str" /\ v.chars \in SupportedKeys THEN Valid
    ELSE IF ~Truthy(v) THEN Invalid("App key cannot be empty")
    ELSE IF v.kind # "str" THEN Invalid("App key must be a string")
    ELSE IF Len(v.chars) > 50 THEN Invalid("App key too long")
    ELSE IF \E i \in 1..Len(v.chars) : v.chars[i] \notin AppKeyClass
         THEN Invalid("App key contains invalid characters")
    ELSE Invalid("Unsupported app")

\* C18: validate_app_key(k) answers (True, None) exactly when k is a key of
\* COMPOSIO_SUPPORTED_APPS, and otherwise (False, message) with the message
\* of the first failing check.
C18_FirstFailingCheck == ePc = "validated" => eOut = FirstFailingCheck(eIn)

\* C18 witness: a key that is not supported and has a character outside the
\* allowed ones has been validated.
C18_Witness ==
    /\ ePc = "validated" /\ eIn.kind = "str" /\ Len(eIn.chars) <= 50
    /\ \E i \in 1..Len(eIn.chars) : eIn.chars[i] \notin AppKeyClass
    /\ ~eOut.ok

\* the app key a Composio tool id names: the text between the prefix
\* available_composio_ or composio_ and the next underscore
AppKeyOf(id) ==
    LET rest == IF StartsWith(id, <<"a","v","a","i","l","a","b","l","e","_","c","o","m","p","o","s","i","o","_">>)
                THEN SubSeq(id, Len(<<"a","v","a","i","l","a","b","l","e","_","c","o","m","p","o","s","i","o","_">>) + 1, Len(id))
                ELSE IF StartsWith(id, <<"c","o","m","p","o","s","i","o","_">>)
                THEN SubSeq(id, Len(<<"c","o","m","p","o","s","i","o","_">>) + 1, Len(id))
                ELSE id
        cut  == {i \in 1..Len(rest) : rest[i] = "_"}
    IN  IF cut = {} THEN rest
        ELSE SubSeq(rest, 1, (CHOOSE i \in cut : \A j \in cut : i <= j) - 1)

\* the positions of the composio_mcp mentions of a list that name app key k
PositionsOf(mentions, k) ==
    {i \in 1..Len(mentions) :
        mentions[i].type = "composio_mcp" /\ StrLower(AppKeyOf(mentions[i].id)) = k}
FirstPosition(mentions, k) ==
    CHOOSE i \in PositionsOf(mentions, k) : \A j \in PositionsOf(mentions, k) : i <= j

\* C19: the result of extract_composio_app_keys has no duplicates and no
\* empty string, and holds exactly the lower-cased app keys of the
\* composio_mcp mentions, in the order in which they first appear.
C19_UniqueKeysInOrder ==
    ePc = "keys" =>
        /\ \A i, j \in 1..Len(eOut) : i # j => eOut[i] # eOut[j]
        /\ \A i \in 1..Len(eOut) : eOut[i] # <<>>
        /\ Range(eOut) =
              {StrLower(AppKeyOf(eIn[i].id)) :
                  i \in {j \in 1..Len(eIn) : eIn[j].type = "composio_mcp"}} \ {<<>>}
        /\ \A i, j \in 1..Len(eOut) :
              i < j => FirstPosition(eIn, eOut[i]) < FirstPosition(eIn, eOut[j])

\* C19 witness: a list that mentions one app twice around another app gave
\* two keys.
C19_Witness ==
    /\ ePc = "keys" /\ Len(eIn) = 3 /\ Len(eOut) = 2
    /\ \A i \in 1..3 : eIn[i].type = "composio_mcp"
    /\ eIn[1].id # eIn[3].id
    /\ StrLower(AppKeyOf(eIn[1].id)) = StrLower(AppKeyOf(eIn[3].id))

\* an occurrence of @[Display](id) begins at position p (1-based) of s:
\* "@[", a display text without "]", "](", an id without ")", ")"
OccurrenceAt(s, p) ==
    \E rb \in (p + 3)..Len(s), rp \in (p + 6)..Len(s) :
        /\ rb + 2 < rp
        /\ s[p] = "@" /\ s[p + 1] = "[" /\ s[rb] = "]" /\ s[rb + 1] = "(" /\ s[rp] = ")"
        /\ \A i \in (p + 2)..(rb - 1) : s[i] # "]"
        /\ \A i \in (rb + 2)..(rp - 1) : s[i] # ")"

\* C20: has_tool_mentions(message) is True exactly when parse_tool_mentions
\* returns a mention; each mention is the text message[start_index:end_index],
\* made of its display and its id; the mentions come left to right without
\* overlap, one for every occurrence that does not lie inside an earlier one.
C20_ParseAgreesWithHas ==
    ePc = "parsed" =>
        LET ms == eOut.mentions
        IN  /\ eOut.has <=> Len(ms) >= 1
            /\ \A k \in 1..Len(ms) :
                  /\ 0 <= ms[k].start_index /\ ms[k].start_index < ms[k].end_index
                  /\ ms[k].end_index <= Len(eIn)
                  /\ ms[k].original_text = SubSeq(eIn, ms[k].start_index + 1, ms[k].end_index)
                  /\ ms[k].original_text =
                        <<"@", "[">> \o ms[k].display \o <<"]", "(">> \o ms[k].id \o <<")">>
                  /\ ms[k].display # <<>> /\ "]" \notin Range(ms[k].display)
                  /\ ms[k].id # <<>> /\ ")" \notin Range(ms[k].id)
            /\ \A k \in 1..(Len(ms) - 1) : ms[k].end_index <= ms[k + 1].start_index
            /\ \A p \in 1..Len(eIn) :
                  OccurrenceAt(eIn, p) =>
                      \E k \in 1..Len(ms) :
                          ms[k].start_index + 1 <= p /\ p <= ms[k].end_index

\* C20 witness: a message with an occurrence inside the display text of
\* another one and a further occurrence after it was parsed into two mentions.
C20_Witness ==
    /\ ePc = "parsed" /\ eOut.has /\ Len(eOut.mentions) = 2
    /\ \E p \in 1..Len(eIn) :
          /\ OccurrenceAt(eIn, p)
          /\ \A k \in 1..2 : eOut.mentions[k].start_index + 1 # p

\* the app a tool record belongs to, as the prompt heads it
HeadingOf(t) == StrUpper(IF t.app_key = <<>> THEN <<"u","n","k","n","o","w","n">> ELSE t.app_key)

\* the positions in the prompt of the functions line of a heading, and the
\* lines that follow it up to the next heading
FunctionsLines(prompt, h) ==
    {i \in 1..Len(prompt) : prompt[i].kind = "functions" /\ prompt[i].app = h}
SectionEnd(prompt, i) ==
    LET later == {j \in (i + 1)..Len(prompt) :
                     prompt[j].kind \in {"functions", "unavailable", "workflow"}}
    IN  CHOOSE j \in later : \A k \in later : j <= k

\* C21: the prompt is empty exactly when the tool list is empty; otherwise
\* each app has one functions line naming every tool without error, details
\* for at most the first two of them with the other N-2 given as a count, and
\* its tools with an error are only counted as unavailable.
C21_PromptListsTools ==
    ePc = "prompt" =>
        /\ (eOut = <<>>) <=> (eIn = <<>>)
        /\ \A h \in {HeadingOf(eIn[i]) : i \in 1..Len(eIn)} :
              LET ok  == {i \in 1..Len(eIn) : HeadingOf(eIn[i]) = h /\ eIn[i].error = "none"}
                  bad == {i \in 1..Len(eIn) : HeadingOf(eIn[i]) = h /\ eIn[i].error # "none"}
                  fl  == FunctionsLines(eOut, h)
                  un  == {i \in 1..Len(eOut) :
                             eOut[i].kind = "unavailable" /\ eOut[i].app = h}
              IN  /\ Cardinality(fl) = (IF ok = {} THEN 0 ELSE 1)
                  /\ \A f \in fl :
                        LET sect == SubSeq(eOut, f + 1, SectionEnd(eOut, f) - 1)
                            det  == SelectSeq(sect, LAMBDA l : l.kind = "detail")
                            more == SelectSeq(sect, LAMBDA l : l.kind = "more")
                        IN  /\ Len(eOut[f].names) = Cardinality(ok)
                            /\ \A i \in ok : eIn[i].name \in Range(eOut[f].names)
                            /\ \A i \in bad :
                                  (\A j \in ok : eIn[j].name # eIn[i].name) =>
                                      eIn[i].name \notin Range(eOut[f].names)
                            /\ Len(det) = (IF Cardinality(ok) < 2 THEN Cardinality(ok) ELSE 2)
                            /\ \A d \in 1..Len(det) : det[d].names = <<eOut[f].names[d]>>
                            /\ IF Cardinality(ok) > 2
                               THEN Len(more) = 1 /\ more[1].count = Cardinality(ok) - 2
                               ELSE more = <<>>
                  /\ Cardinality(un) = (IF bad = {} THEN 0 ELSE 1)
                  /\ \A u \in un : eOut[u].count = Cardinality(bad)

\* C21 witness: a prompt for one app with three tools without error and one
\* with an error.
C21_Witness ==
    /\ ePc = "prompt" /\ Len(eIn) = 4
    /\ \A i \in 1..4 : eIn[i].app_key = eIn[1].app_key
    /\ Cardinality({i \in 1..4 : eIn[i].error = "none"}) = 3
    /\ \E i \in 1..Len(eOut) : eOut[i].kind = "more"
    /\ \E i \in 1..Len(eOut) : eOut[i].kind = "unavailable"

\* C22: a run never inserts a subscription whose id is already in
\* billing_subscriptions, it counts those as skipped, and a run that directly
\* follows a run in which every insert succeeded inserts nothing and
\* returns 0.
C22_SyncIdempotent ==
    (bRuns >= 1 /\ ~bLast.raised) =>
        /\ bLast.inserted \cap bLast.existingBefore = {}
        /\ bLast.skipped \subseteq bLast.existingBefore
        /\ bLast.afterCleanRun => (bLast.inserted = {} /\ bLast.ret = PyInt(0))

\* C22 witness: a run that inserted subscriptions, all with success, was
\* followed by a run that skipped every one of them, inserted nothing and
\* returned 0.
C22_Witness ==
    /\ bRuns = 2 /\ bLast.afterCleanRun /\ ~bLast.raised
    /\ bLast.prevInserted # {} /\ bLast.prevInserted \subseteq bLast.skipped
    /\ bLast.inserted = {} /\ bLast.ret = PyInt(0)

=============================================================================
